---- MODULE Spec2Model ----
(***************************************************************************)
(* YouTrack Wrapped: the data-collection and statistics pipeline.          *)
(*   YouTrackClient       src/src/public/services/youtrackClient.js        *)
(*   DataCollector        src/src/public/services/dataCollector.js         *)
(*   StatisticsCalculator src/unnamed/part_002                             *)
(*   loadData (its catch) src/unnamed/part_000                             *)
(*   login form, settings src/unnamed/part_000                             *)
(*                                                                         *)
(* An instant (a JavaScript millisecond timestamp) is the record           *)
(* [day |-> days since 1970-01-01, ms |-> millisecond of that UTC day]:    *)
(* the same integer, split so that every component fits a 32-bit integer.  *)
(***************************************************************************)
EXTENDS Integers, Sequences, FiniteSets, TLC

VARIABLES
  \* ---- DataCollector.collectYearData and the YouTrackClient calls it makes
  pc,              \* position of collectYearData
  year,            \* its arguments
  articleProjects,
  onProgress,
  userCall,        \* the getCurrentUser request
  currentUser,     \* the user returned by getCurrentUser, or Null
  server,          \* the tracker's data: how many items each query matches
  calls,           \* the three paginated issue fetches of the fan-out
  art,             \* the getArticles call of the fan-out
  all,             \* the promise returned by Promise.all
  failOrder,       \* the fan-out calls that rejected, in the order they did
  outcome,         \* what collectYearData returned or threw
  \* ---- extractUserComments / filterArticlesByUserAndYear on their own
  filterIn,
  filterOut,
  \* ---- StatisticsCalculator
  data,            \* this.data, the RawYearDataset
  tz,              \* the browser's UTC offset, in minutes
  report,          \* what calculateAll returned, or Null
  \* ---- YouTrackClient.request and the catch of loadData
  load,            \* the answer to a request, the error thrown, what the user is told
  \* ---- YouTrackWrapped: the login form and the persisted connection settings
  storage,         \* localStorage: the item 'youtrack-wrapped-config', the calls that write
  form,            \* the fields of the login form
  session          \* the YouTrackWrapped object of the page: screen, this.config, this.data

collectVars == <<pc, year, articleProjects, onProgress, userCall, currentUser, server,
                 calls, art, all, failOrder, outcome>>
filterVars == <<filterIn, filterOut>>
statsVars == <<data, tz, report>>
loadVars == <<load>>
loginVars == <<storage, form, session>>
vars == <<collectVars, filterVars, statsVars, loadVars, loginVars>>

\* null or undefined where an object (or a timestamp) is expected; an absent
\* string or array is a field the record does not have
Null == [absent |-> TRUE]
Has(r, f) == f \in DOMAIN r

(***************************************************************************)
(* Date: the parts of the JavaScript Date built-in that the code uses.     *)
(***************************************************************************)
MsPerDay == 86400000

\* days since 1970-01-01 of the proleptic Gregorian date y-m-d
DaysFromCivil(y, m, d) ==
  LET yy == IF m <= 2 THEN y - 1 ELSE y
      era == yy \div 400
      yoe == yy - era * 400
      mp == IF m > 2 THEN m - 3 ELSE m + 9
      doy == (153 * mp + 2) \div 5 + d - 1
      doe == yoe * 365 + yoe \div 4 - yoe \div 100 + doy
  IN  era * 146097 + doe - 719468

\* the Gregorian date [y, m, d] of a day number
CivilFromDays(z) ==
  LET zz == z + 719468
      era == zz \div 146097
      doe == zz - era * 146097
      yoe == (doe - doe \div 1460 + doe \div 36524 - doe \div 146096) \div 365
      doy == doe - (365 * yoe + yoe \div 4 - yoe \div 100)
      mp == (5 * doy + 2) \div 153
      d == doy - (153 * mp + 2) \div 5 + 1
      m == IF mp < 10 THEN mp + 3 ELSE mp - 9
  IN  [y |-> yoe + era * 400 + (IF m <= 2 THEN 1 ELSE 0), m |-> m, d |-> d]

\* new Date(`${y}-${mo}-${d}T${h}:${mi}:${s}Z`).getTime()
DateUTC(y, mo, d, h, mi, s) ==
  [day |-> DaysFromCivil(y, mo, d), ms |-> ((h * 60 + mi) * 60 + s) * 1000]

\* a <= b and a >= b on timestamps
Leq(a, b) == a.day < b.day \/ (a.day = b.day /\ a.ms <= b.ms)
Geq(a, b) == Leq(b, a)

\* the instant n milliseconds after t, for -MsPerDay < n < MsPerDay
PlusMs(t, n) ==
  LET s == t.ms + n
  IN  IF s < 0 THEN [day |-> t.day - 1, ms |-> s + MsPerDay]
      ELSE IF s >= MsPerDay THEN [day |-> t.day + 1, ms |-> s - MsPerDay]
      ELSE [day |-> t.day, ms |-> s]

(***************************************************************************)
(* DataCollector: the year window and the two filters.                     *)
(***************************************************************************)
yearStart(y) == DateUTC(y, 1, 1, 0, 0, 0)
yearEnd(y) == DateUTC(y, 12, 31, 23, 59, 59)

\* the condition with an exclusive upper end
CommentKeptBeforeEnd(comment, userLogin, y) ==
  /\ comment.author # Null
  /\ comment.author.login = userLogin
  /\ Geq(comment.created, yearStart(y))
  /\ ~Geq(comment.created, yearEnd(y))

\* the condition of the if in extractUserComments
CommentKept(comment, userLogin, y) ==
  /\ comment.author # Null
  /\ comment.author.login = userLogin
  /\ Geq(comment.created, yearStart(y))
  /\ Leq(comment.created, yearEnd(y))

\* comments.push({...comment, issue: {id, idReadable, summary, project}})
EnrichedComment(comment, issue) ==
  [issue |-> [id |-> issue.id, idReadable |-> issue.idReadable,
              summary |-> issue.summary, project |-> issue.project]] @@ comment

RECURSIVE CommentsOfIssue(_, _, _, _)
CommentsOfIssue(cs, issue, userLogin, y) ==
  IF cs = <<>> THEN <<>>
  ELSE (IF CommentKept(Head(cs), userLogin, y)
          THEN <<EnrichedComment(Head(cs), issue)>> ELSE <<>>)
       \o CommentsOfIssue(Tail(cs), issue, userLogin, y)

RECURSIVE extractUserComments(_, _, _)
extractUserComments(issues, userLogin, y) ==
  IF issues = <<>> THEN <<>>
  ELSE (IF ~Has(Head(issues), "comments") THEN <<>>
        ELSE CommentsOfIssue(Head(issues).comments, Head(issues), userLogin, y))
       \o extractUserComments(Tail(issues), userLogin, y)

\* the predicate of articles.filter(...)
ArticleKept(article, userLogin, y) ==
  /\ article.reporter # Null
  /\ article.reporter.login = userLogin
  /\ Geq(article.created, yearStart(y))
  /\ Leq(article.created, yearEnd(y))

filterArticlesByUserAndYear(articles, userLogin, y) ==
  SelectSeq(articles, LAMBDA a : ArticleKept(a, userLogin, y))

(***************************************************************************)
(* The two filters applied to bounded inputs.                              *)
(***************************************************************************)
MaxComments == 2
MaxArticlesIn == 2

Logins == {"alice", "bob"}
Years == {2024, 2025}

\* instants at and around the two ends of the year window of y
WindowInstants(y) ==
  { [day |-> DaysFromCivil(y - 1, 12, 31), ms |-> MsPerDay - 1],   \* 1 ms before
    [day |-> DaysFromCivil(y, 1, 1), ms |-> 0],                    \* Jan 1 00:00:00.000
    [day |-> DaysFromCivil(y, 7, 1), ms |-> 43200000],             \* Jul 1 12:00
    [day |-> DaysFromCivil(y, 12, 31), ms |-> MsPerDay - 1000],    \* Dec 31 23:59:59.000
    [day |-> DaysFromCivil(y, 12, 31), ms |-> MsPerDay - 500],     \* Dec 31 23:59:59.500
    [day |-> DaysFromCivil(y + 1, 1, 1), ms |-> 0] }               \* next Jan 1 00:00

Authors == {[login |-> l] : l \in Logins} \cup {Null}

SeqsUpTo(S, n) == UNION {[1..k -> S] : k \in 0..n}

\* a comment as the tracker returns it; its id is its place in the response
MkComment(iss, k, shape) ==
  [id |-> <<iss, k>>, created |-> shape.created, author |-> shape.author]

\* an issue as a query without the comments field returns it
MkIssueNoComments(iss) ==
  [id |-> iss, idReadable |-> iss, summary |-> 1, project |-> Null]

MkIssue(iss, shapes) ==
  [comments |-> [k \in 1..Len(shapes) |-> MkComment(iss, k, shapes[k])]]
    @@ MkIssueNoComments(iss)

MkArticle(k, shape) ==
  [id |-> k, created |-> shape.created, reporter |-> shape.author]

CommentShapes(y) == [created : WindowInstants(y), author : Authors]

\* one issue with any comments, optionally followed by an issue without a
\* comments field or by an issue with one mid-year comment of alice
FilterIssueLists(y) ==
  LET firsts == {MkIssue(1, cs) : cs \in SeqsUpTo(CommentShapes(y), MaxComments)}
      seconds == { MkIssueNoComments(2),
                   MkIssue(2, <<[created |-> [day |-> DaysFromCivil(y, 7, 1), ms |-> 43200000],
                                 author |-> [login |-> "alice"]]>>) }
  IN  {<<f>> : f \in firsts} \cup {<<f, s>> : f \in firsts, s \in seconds}

FilterArticleLists(y) ==
  { [k \in 1..Len(shapes) |-> MkArticle(k, shapes[k])] :
      shapes \in SeqsUpTo(CommentShapes(y), MaxArticlesIn) }

FilterIdle ==
  /\ filterIn = Null
  /\ filterOut = Null

InitFilterVars ==
  /\ \E y \in Years, l \in Logins :
       \/ \E is \in FilterIssueLists(y) :
            filterIn = [issues |-> is, articles |-> <<>>, userLogin |-> l, year |-> y]
       \/ \E as \in FilterArticleLists(y) :
            filterIn = [issues |-> <<>>, articles |-> as, userLogin |-> l, year |-> y]
  /\ filterOut = [ran |-> {}, comments |-> <<>>, articles |-> <<>>]

ExtractUserComments ==
  /\ filterIn # Null
  /\ "comments" \notin filterOut.ran
  /\ filterOut' = [filterOut EXCEPT
                     !.ran = @ \cup {"comments"},
                     !.comments = extractUserComments(filterIn.issues, filterIn.userLogin,
                                                      filterIn.year)]
  /\ UNCHANGED <<filterIn, collectVars, statsVars, loadVars, loginVars>>

FilterArticles ==
  /\ filterIn # Null
  /\ "articles" \notin filterOut.ran
  /\ filterOut' = [filterOut EXCEPT
                     !.ran = @ \cup {"articles"},
                     !.articles = filterArticlesByUserAndYear(filterIn.articles,
                                                              filterIn.userLogin,
                                                              filterIn.year)]
  /\ UNCHANGED <<filterIn, collectVars, statsVars, loadVars, loginVars>>

(***************************************************************************)
(* The tracker behind YouTrackClient.request: what it holds and answers.   *)
(***************************************************************************)
top == 100
ShortPage == 37

IssueCalls == {"created", "resolved", "comments"}
Projects == <<"A", "B", "C">>

Min(a, b) == IF a < b THEN a ELSE b

WindowInstantSeq(y) ==
  << [day |-> DaysFromCivil(y, 7, 1), ms |-> 43200000],
     [day |-> DaysFromCivil(y, 1, 1), ms |-> 0],
     [day |-> DaysFromCivil(y, 12, 31), ms |-> MsPerDay - 1000],
     [day |-> DaysFromCivil(y, 12, 31), ms |-> MsPerDay - 500],
     [day |-> DaysFromCivil(y + 1, 1, 1), ms |-> 0],
     [day |-> DaysFromCivil(y - 1, 12, 31), ms |-> MsPerDay - 1] >>

AuthorSeq == <<[login |-> "alice"], [login |-> "bob"], Null>>

\* the k-th item the tracker holds for a query: authors and creation instants vary with k
ServerShape(k, y) ==
  [created |-> WindowInstantSeq(y)[(k % 6) + 1], author |-> AuthorSeq[(k % 3) + 1]]

ServerIssue(c, k, y) ==
  IF c = "comments" THEN MkIssue(k, <<ServerShape(k, y)>>) ELSE [id |-> k]

ServerArticle(p, k, y) == MkArticle(<<p, k>>, ServerShape(k, y))

\* how many items the tracker returns for $top=100&$skip=skip when the query matches total items
PageLen(total, skip) == IF total <= skip THEN 0 ELSE Min(top, total - skip)

IssuePage(c, skip) ==
  [i \in 1..PageLen(server.total[c], skip) |-> ServerIssue(c, skip + i, year)]

ArticlePage(p, skip) ==
  [i \in 1..PageLen(server.articles[p], skip) |-> ServerArticle(p, skip + i, year)]

\* the ways request() throws: fetch rejected, or a response that is not ok
Failures == {"network", "status"}

\* the error request() throws, as seen by the caller of the call it was made for
RequestError(c, cause) == [source |-> c, cause |-> cause]
ProgressError(c) == [source |-> c, cause |-> "onProgress"]

(***************************************************************************)
(* onProgress: absent, a callback that returns, or one that may throw.     *)
(***************************************************************************)
ProgressModes == {"absent", "returns", "mayThrow"}

\* whether one invocation of updateProgress / onProgress throws
Throws == IF onProgress = "mayThrow" THEN {TRUE, FALSE} ELSE {FALSE}

(***************************************************************************)
(* YouTrackClient: the paginated fetches, one step per response.           *)
(* A response is [ok |-> TRUE, data |-> page] or [ok |-> FALSE, cause].    *)
(***************************************************************************)
\* userId: the login the query of every request of the call is built from
IdleCall ==
  [status |-> "idle", userId |-> "", skip |-> 0, allIssues |-> <<>>, requests |-> <<>>,
   progress |-> <<>>, error |-> Null]

\* a call whose query names a fixed login instead of its argument
StartedCallFixedLogin(userId) ==
  [IdleCall EXCEPT !.status = "inflight", !.userId = "bob", !.requests = <<0>>]

\* the call up to its first await: the request for $skip=0 is in flight
StartedCall(userId) ==
  [IdleCall EXCEPT !.status = "inflight", !.userId = userId, !.requests = <<0>>]

\* the logins that the URL of a request of issue fetch c, and of getArticles, names
LoginsInIssueRequest(call) == {call.userId}
LoginsInArticleRequest(a) == {}

\* a fetch that issues a failed request once more before it gives up
getIssuesRetryOnce(call, c, resp, th) ==
  IF ~resp.ok
    THEN IF Len(call.requests) < 2 \/ call.requests[Len(call.requests) - 1] # call.skip
           THEN [call EXCEPT !.requests = Append(@, call.skip)]
           ELSE [call EXCEPT !.status = "rejected", !.error = RequestError(c, resp.cause)]
  ELSE IF Len(resp.data) = 0
    THEN [call EXCEPT !.status = "fulfilled"]
  ELSE
    LET allIssues == call.allIssues \o resp.data
        skip == call.skip + top
        grown == [call EXCEPT !.allIssues = allIssues, !.skip = skip]
        told == IF onProgress = "absent" THEN grown
                ELSE [grown EXCEPT !.progress = Append(@, Len(allIssues))]
    IN  IF onProgress # "absent" /\ th
          THEN [told EXCEPT !.status = "rejected", !.error = ProgressError(c)]
        ELSE IF Len(resp.data) < top
          THEN [told EXCEPT !.status = "fulfilled"]
        ELSE [told EXCEPT !.requests = Append(@, skip)]

\* the loop without its break on a short page: it stops on an empty page only
getIssuesNoShortBreak(call, c, resp, th) ==
  IF ~resp.ok
    THEN [call EXCEPT !.status = "rejected", !.error = RequestError(c, resp.cause)]
  ELSE IF Len(resp.data) = 0
    THEN [call EXCEPT !.status = "fulfilled"]
  ELSE
    LET allIssues == call.allIssues \o resp.data
        skip == call.skip + top
        grown == [call EXCEPT !.allIssues = allIssues, !.skip = skip]
        told == IF onProgress = "absent" THEN grown
                ELSE [grown EXCEPT !.progress = Append(@, Len(allIssues))]
    IN  IF onProgress # "absent" /\ th
          THEN [told EXCEPT !.status = "rejected", !.error = ProgressError(c)]
        ELSE [told EXCEPT !.requests = Append(@, skip)]

\* getIssuesCreatedByUser, getIssuesWithComments, getIssuesResolvedByUser (the
\* same loop three times): from the response to the request in flight up to the
\* next await or the return.  th: the onProgress invocation of this step throws.
getIssues(call, c, resp, th) ==
  IF ~resp.ok
    THEN [call EXCEPT !.status = "rejected", !.error = RequestError(c, resp.cause)]
  ELSE IF Len(resp.data) = 0
    THEN [call EXCEPT !.status = "fulfilled"]
  ELSE
    LET allIssues == call.allIssues \o resp.data
        skip == call.skip + top
        grown == [call EXCEPT !.allIssues = allIssues, !.skip = skip]
        told == IF onProgress = "absent" THEN grown
                ELSE [grown EXCEPT !.progress = Append(@, Len(allIssues))]
    IN  IF onProgress # "absent" /\ th
          THEN [told EXCEPT !.status = "rejected", !.error = ProgressError(c)]
        ELSE IF Len(resp.data) < top
          THEN [told EXCEPT !.status = "fulfilled"]
        ELSE [told EXCEPT !.requests = Append(@, skip)]

\* warned: the console.warn lines of the catch, each <<short name, cause>>
IdleArt ==
  [status |-> "idle", idx |-> 0, skip |-> 0, projectArticles |-> <<>>,
   allArticles |-> <<>>, requests |-> <<>>, progress |-> <<>>, warned |-> <<>>]

\* getArticles up to its first await
StartedArt(projectShortNames) ==
  IF Len(projectShortNames) = 0
    THEN [IdleArt EXCEPT !.status = "fulfilled"]
    ELSE [IdleArt EXCEPT !.status = "inflight", !.idx = 1,
                         !.requests = <<<<projectShortNames[1], 0>>>>]

\* the for loop of getArticles moves to the next short name, or the function returns
NextProject(a, projectShortNames) ==
  IF a.idx = Len(projectShortNames)
    THEN [a EXCEPT !.status = "fulfilled"]
    ELSE [a EXCEPT !.idx = @ + 1, !.projectArticles = <<>>, !.skip = 0,
                   !.requests = Append(@, <<projectShortNames[a.idx + 1], 0>>)]

\* after the while loop, inside the try: push, report, and the catch around them
AfterPages(a, projectShortNames, th) ==
  LET pushed == [a EXCEPT !.allArticles = @ \o a.projectArticles]
      told == [pushed EXCEPT !.progress = Append(@, Len(pushed.allArticles))]
  IN  IF onProgress = "absent" THEN NextProject(pushed, projectShortNames)
      ELSE IF th
        THEN NextProject([told EXCEPT
                            !.warned = Append(@, <<projectShortNames[a.idx], "onProgress">>)],
                         projectShortNames)
      ELSE NextProject(told, projectShortNames)

\* getArticles pushing every page into allArticles as soon as it is received
getArticlesPushPages(a, projectShortNames, resp, th) ==
  IF ~resp.ok
    THEN NextProject([a EXCEPT
                        !.warned = Append(@, <<projectShortNames[a.idx], resp.cause>>)],
                     projectShortNames)
  ELSE IF Len(resp.data) = 0
    THEN AfterPages(a, projectShortNames, th)
  ELSE
    LET grown == [a EXCEPT !.allArticles = @ \o resp.data, !.skip = @ + top]
    IN  IF Len(resp.data) < top
          THEN AfterPages(grown, projectShortNames, th)
          ELSE [grown EXCEPT !.requests =
                               Append(@, <<projectShortNames[a.idx], grown.skip>>)]

\* getArticles with the try around the whole for loop: a failure ends the loop
getArticlesStopOnFailure(a, projectShortNames, resp, th) ==
  IF ~resp.ok
    THEN [a EXCEPT !.status = "fulfilled",
                   !.warned = Append(@, <<projectShortNames[a.idx], resp.cause>>)]
  ELSE IF Len(resp.data) = 0
    THEN AfterPages(a, projectShortNames, th)
  ELSE
    LET grown == [a EXCEPT !.projectArticles = @ \o resp.data, !.skip = @ + top]
    IN  IF Len(resp.data) < top
          THEN AfterPages(grown, projectShortNames, th)
          ELSE [grown EXCEPT !.requests =
                               Append(@, <<projectShortNames[a.idx], grown.skip>>)]

getArticles(a, projectShortNames, resp, th) ==
  IF ~resp.ok
    THEN NextProject([a EXCEPT
                        !.warned = Append(@, <<projectShortNames[a.idx], resp.cause>>)],
                     projectShortNames)
  ELSE IF Len(resp.data) = 0
    THEN AfterPages(a, projectShortNames, th)
  ELSE
    LET grown == [a EXCEPT !.projectArticles = @ \o resp.data, !.skip = @ + top]
    IN  IF Len(resp.data) < top
          THEN AfterPages(grown, projectShortNames, th)
          ELSE [grown EXCEPT !.requests =
                               Append(@, <<projectShortNames[a.idx], grown.skip>>)]

(***************************************************************************)
(* DataCollector.collectYearData                                           *)
(***************************************************************************)
Threw(e) == [kind |-> "threw", value |-> e]
Returned(v) == [kind |-> "returned", value |-> v]

\* Promise.allSettled in its place: it waits for all four and then reports the
\* first rejection in argument order
PromiseAllSettled(nc, na, src) ==
  IF all.status # "pending" THEN all
  ELSE IF /\ na.status = "fulfilled"
          /\ \A c \in IssueCalls : nc[c].status \in {"fulfilled", "rejected"}
    THEN IF \A c \in IssueCalls : nc[c].status = "fulfilled"
           THEN [status |-> "fulfilled", error |-> Null]
           ELSE [status |-> "rejected",
                 error |-> IF nc["created"].status = "rejected" THEN nc["created"].error
                           ELSE IF nc["resolved"].status = "rejected" THEN nc["resolved"].error
                           ELSE nc["comments"].error]
  ELSE all

\* Promise.all over the four calls, after call src has moved: it rejects with the
\* first rejection and fulfils when all four have fulfilled
PromiseAll(nc, na, src) ==
  IF all.status # "pending" THEN all
  ELSE IF src \in IssueCalls /\ nc[src].status = "rejected"
    THEN [status |-> "rejected", error |-> nc[src].error]
  ELSE IF na.status = "fulfilled" /\ \A c \in IssueCalls : nc[c].status = "fulfilled"
    THEN [status |-> "fulfilled", error |-> Null]
  ELSE all

\* the RawYearDataset of steps 3 and 4 (collectedAt, a clock reading, is left out)
Dataset(nc, na) ==
  [user |-> currentUser, year |-> year,
   createdIssues |-> nc["created"].allIssues,
   resolvedIssues |-> nc["resolved"].allIssues,
   comments |-> extractUserComments(nc["comments"].allIssues, currentUser.login, year),
   articles |-> filterArticlesByUserAndYear(na.allArticles, currentUser.login, year)]

\* collectYearData after its await of Promise.all: the catch that rethrows, or
\* steps 3 and 4 with their two updateProgress calls (t3, t4: that call throws)
AfterFanOut(newAll, nc, na, t3, t4) ==
  IF all.status # "pending" \/ newAll.status = "pending"
    THEN [pc |-> pc, outcome |-> outcome]
  ELSE IF newAll.status = "rejected"
    THEN [pc |-> "failed", outcome |-> Threw(newAll.error)]
  ELSE IF t3 \/ t4
    THEN [pc |-> "failed", outcome |-> Threw(ProgressError("collectYearData"))]
  ELSE [pc |-> "done", outcome |-> Returned(Dataset(nc, na))]

ThrowsOf(mode) == IF mode = "mayThrow" THEN {TRUE, FALSE} ELSE {FALSE}

\* collectYearData(year, articleProjects, onProgress) up to its first await
CollectYearData(y, projects, mode) ==
  /\ pc = "idle"
  /\ \A c \in IssueCalls : calls[c].status = "idle"
  /\ art.status = "idle"
  /\ year' = y
  /\ articleProjects' = projects
  /\ onProgress' = mode
  /\ \E th \in ThrowsOf(mode) :
       IF th
         THEN /\ pc' = "failed"
              /\ outcome' = Threw(ProgressError("collectYearData"))
              /\ userCall' = userCall
         ELSE /\ pc' = "user"
              /\ outcome' = outcome
              /\ userCall' = [status |-> "inflight", error |-> Null]
  /\ UNCHANGED <<currentUser, server, calls, art, all, failOrder, filterVars, statsVars, loadVars, loginVars>>

\* the response to getCurrentUser, and on success the start of the four calls
UserResponse ==
  /\ pc = "user"
  /\ \E resp \in {[ok |-> TRUE, data |-> server.user]}
                   \cup {[ok |-> FALSE, cause |-> f] : f \in Failures},
        th \in Throws :
       IF ~resp.ok
         THEN /\ pc' = "failed"
              /\ userCall' = [status |-> "rejected",
                              error |-> RequestError("getCurrentUser", resp.cause)]
              /\ outcome' = Threw(RequestError("getCurrentUser", resp.cause))
              /\ UNCHANGED <<currentUser, calls, art, all>>
       ELSE IF th
         THEN /\ pc' = "failed"
              /\ userCall' = [status |-> "fulfilled", error |-> Null]
              /\ outcome' = Threw(ProgressError("collectYearData"))
              /\ currentUser' = resp.data
              /\ UNCHANGED <<calls, art, all>>
       ELSE /\ pc' = "fanout"
            /\ userCall' = [status |-> "fulfilled", error |-> Null]
            /\ currentUser' = resp.data
            /\ calls' = [c \in IssueCalls |-> StartedCall(resp.data.login)]
            /\ art' = StartedArt(articleProjects)
            /\ all' = [status |-> "pending", error |-> Null]
            /\ outcome' = outcome
  /\ UNCHANGED <<year, articleProjects, onProgress, server, failOrder, filterVars, statsVars, loadVars, loginVars>>

Responses(page) ==
  {[ok |-> TRUE, data |-> page]} \cup {[ok |-> FALSE, cause |-> f] : f \in Failures}

\* the response to the request that issue fetch c has in flight
IssueResponse(c) ==
  /\ calls[c].status = "inflight"
  /\ \E call \in {getIssues(calls[c], c, resp, th) :
                       resp \in Responses(IssuePage(c, calls[c].skip)), th \in Throws} :
       LET nc == [calls EXCEPT ![c] = call]
           na == PromiseAll(nc, art, c)
       IN  /\ calls' = nc
           /\ all' = na
           /\ \E r \in {AfterFanOut(na, nc, art, t3, t4) : t3 \in Throws, t4 \in Throws} :
                pc' = r.pc /\ outcome' = r.outcome
           /\ failOrder' = IF call.status = "rejected"
                             THEN Append(failOrder, c) ELSE failOrder
  /\ UNCHANGED <<year, articleProjects, onProgress, userCall, currentUser, server, art,
                 filterVars, statsVars, loadVars, loginVars>>

\* the response to the request that getArticles has in flight
ArticlesResponse ==
  /\ art.status = "inflight"
  /\ \E a \in {getArticles(art, articleProjects, resp, th) :
                    resp \in Responses(ArticlePage(articleProjects[art.idx], art.skip)),
                    th \in Throws} :
       LET na == PromiseAll(calls, a, "articles")
       IN  /\ art' = a
           /\ all' = na
           /\ \E r \in {AfterFanOut(na, calls, a, t3, t4) : t3 \in Throws, t4 \in Throws} :
                pc' = r.pc /\ outcome' = r.outcome
  /\ UNCHANGED <<year, articleProjects, onProgress, userCall, currentUser, server, calls,
                 failOrder, filterVars, statsVars, loadVars, loginVars>>

\* a direct call of one of the three issue fetches
CallGetIssues(c, userId, mode) ==
  /\ pc = "idle"
  /\ \A d \in IssueCalls : calls[d].status = "idle"
  /\ art.status = "idle"
  /\ calls' = [calls EXCEPT ![c] = StartedCall(userId)]
  /\ onProgress' = mode
  /\ UNCHANGED <<pc, year, articleProjects, userCall, currentUser, server, art, all, failOrder,
                 outcome, filterVars, statsVars, loadVars, loginVars>>

\* a direct call of getArticles
CallGetArticles(projects, mode) ==
  /\ pc = "idle"
  /\ \A d \in IssueCalls : calls[d].status = "idle"
  /\ art.status = "idle"
  /\ articleProjects' = projects
  /\ art' = StartedArt(projects)
  /\ onProgress' = mode
  /\ UNCHANGED <<pc, year, userCall, currentUser, server, calls, all, failOrder, outcome,
                 filterVars, statsVars, loadVars, loginVars>>

(***************************************************************************)
(* YouTrackClient.request and the catch of loadData (src/unnamed/part_000). *)
(* A string whose content the code inspects is the sequence of its          *)
(* characters.                                                             *)
(***************************************************************************)
DigitChars == <<"0", "1", "2", "3", "4", "5", "6", "7", "8", "9">>

\* `${n}` for an integer n >= 0
RECURSIVE Digits(_)
Digits(n) ==
  IF n < 10 THEN <<DigitChars[n + 1]>>
  ELSE Digits(n \div 10) \o <<DigitChars[(n % 10) + 1]>>

\* s.includes(sub)
Includes(s, sub) ==
  \E i \in 1..(Len(s) - Len(sub) + 1) : SubSeq(s, i, i + Len(sub) - 1) = sub

\* the messages of the TypeError with which fetch rejects (Chromium, Firefox, WebKit)
FetchMessages ==
  { <<"F", "a", "i", "l", "e", "d", " ", "t", "o", " ", "f", "e", "t", "c", "h">>,
    <<"N", "e", "t", "w", "o", "r", "k", "E", "r", "r", "o", "r", " ", "w", "h", "e", "n", " ", "a", "t", "t", "e", "m", "p", "t", "i", "n", "g", " ", "t", "o", " ", "f", "e", "t", "c", "h", " ", "r", "e", "s", "o", "u", "r", "c", "e", ".">>,
    <<"L", "o", "a", "d", " ", "f", "a", "i", "l", "e", "d">> }

\* response bodies of the tracker or of a proxy in front of it
Bodies ==
  { <<>>,
    <<"U", "n", "a", "u", "t", "h", "o", "r", "i", "z", "e", "d">>,
    <<"N", "o", "t", " ", "F", "o", "u", "n", "d">>,
    <<"E", "n", "t", "i", "t", "y", " ", "w", "i", "t", "h", " ", "i", "d", " ", "2", "-", "4", "0", "3", "1", " ", "n", "o", "t", " ", "f", "o", "u", "n", "d">>,
    <<"P", "r", "o", "x", "y", " ", "e", "r", "r", "o", "r", ":", " ", "F", "a", "i", "l", "e", "d", " ", "t", "o", " ", "f", "e", "t", "c", "h", " ", "u", "p", "s", "t", "r", "e", "a", "m">>,
    <<"I", "n", "v", "a", "l", "i", "d", " ", "t", "o", "k", "e", "n", " ", "4", "0", "1", "f">> }

Statuses == {200, 204, 400, 401, 403, 404, 429, 500, 502}

\* what fetch does for one request: it rejects, or it resolves with a response
FetchOutcomes ==
  {[kind |-> "network", status |-> 0, text |-> m] : m \in FetchMessages}
  \cup {[kind |-> "http", status |-> st, text |-> b] : st \in Statuses, b \in Bodies}

\* response.ok
Ok(response) == response.status >= 200 /\ response.status <= 299

\* `YouTrack API error (${response.status}): ${errorText}`
ApiErrorMessage(response) ==
  <<"Y", "o", "u", "T", "r", "a", "c", "k", " ", "A", "P", "I", " ", "e", "r", "r", "o", "r", " ", "(">>
    \o Digits(response.status) \o <<")", ":", " ">> \o response.text

LoadIdle == load = Null

\* request(): the awaited fetch settles; the function returns the data or throws
Request ==
  /\ load.pc = "fetching"
  /\ load' = IF load.fetch.kind = "network"
               THEN [load EXCEPT !.pc = "thrown", !.message = load.fetch.text]
             ELSE IF ~Ok(load.fetch)
               THEN [load EXCEPT !.pc = "thrown", !.message = ApiErrorMessage(load.fetch)]
             ELSE [load EXCEPT !.pc = "returned"]
  /\ UNCHANGED <<collectVars, filterVars, statsVars, loginVars>>

\* the catch of loadData: the error shown in place of the one thrown
LoadDataCatch ==
  /\ load.pc = "thrown"
  /\ load' = [load EXCEPT
                !.pc = "shown",
                !.shown = IF \/ Includes(load.message, <<"F", "a", "i", "l", "e", "d", " ", "t", "o", " ", "f", "e", "t", "c", "h">>)
                             \/ Includes(load.message, <<"N", "e", "t", "w", "o", "r", "k", "E", "r", "r", "o", "r">>)
                            THEN "connectivity"
                          ELSE IF \/ Includes(load.message, <<"4", "0", "1">>)
                                  \/ Includes(load.message, <<"4", "0", "3">>)
                            THEN "authentication"
                          ELSE "passthrough"]
  /\ UNCHANGED <<collectVars, filterVars, statsVars, loginVars>>

(***************************************************************************)
(* YouTrackWrapped (src/unnamed/part_000): the login form, handleLogin and  *)
(* the connection settings kept in localStorage.  A field of the form is    *)
(* the sequence of its characters; the year field is the number parseInt    *)
(* reads from it, 0 when that is NaN or 0 (both falsy).                     *)
(***************************************************************************)
\* the page is not open
LoginIdle == storage = Null /\ form = Null /\ session = Null

\* String.prototype.trim for the blanks at both ends
RECURSIVE Trim(_)
Trim(s) ==
  IF Len(s) = 0 THEN s
  ELSE IF Head(s) = " " THEN Trim(Tail(s))
  ELSE IF s[Len(s)] = " " THEN Trim(SubSeq(s, 1, Len(s) - 1))
  ELSE s

\* JSON.stringify of the config object and JSON.parse of the stored string: the
\* string holds the four properties, the year as a decimal number
JSONStringify(config) ==
  [baseUrl |-> config.baseUrl, token |-> config.token, year |-> Digits(config.year),
   articleProjects |-> config.articleProjects]

RECURSIVE ParseNumber(_)
ParseNumber(ds) ==
  IF Len(ds) = 0 THEN 0
  ELSE 10 * ParseNumber(SubSeq(ds, 1, Len(ds) - 1))
         + (CHOOSE d \in 0..9 : DigitChars[d + 1] = ds[Len(ds)])

JSONParse(str) ==
  [baseUrl |-> str.baseUrl, token |-> str.token, year |-> ParseNumber(str.year),
   articleProjects |-> str.articleProjects]

\* the form as the page shows it before loadSavedConfig
EmptyForm ==
  [url |-> <<>>, token |-> <<>>, year |-> 2025, articleProjects |-> <<>>, remember |-> FALSE]

\* the YouTrackWrapped object after its constructor
NewSession ==
  [screen |-> "login", loginError |-> FALSE, config |-> Null, remember |-> FALSE,
   data |-> Null]

\* loadSavedConfig: the form filled from the stored item, if there is one
loadSavedConfig(f, item) ==
  IF item = Null THEN f
  ELSE LET config == JSONParse(item)
       IN  [url |-> config.baseUrl,
            token |-> config.token,
            year |-> IF config.year = 0 THEN 2025 ELSE config.year,
            articleProjects |-> config.articleProjects,
            remember |-> IF Len(config.baseUrl) > 0 /\ Len(config.token) > 0
                           THEN TRUE ELSE f.remember]

\* a saveConfig that stores the settings whether or not remember is checked
saveConfigAlways(store, config, remember, full) ==
  IF full THEN [store EXCEPT !.writes = @ + 1]
  ELSE [item |-> JSONStringify(config), writes |-> store.writes + 1]

\* saveConfig(config, remember); full: setItem throws (the quota is exceeded),
\* which the catch only logs
saveConfig(store, config, remember, full) ==
  IF remember
    THEN IF full THEN [store EXCEPT !.writes = @ + 1]
         ELSE [item |-> JSONStringify(config), writes |-> store.writes + 1]
    ELSE [item |-> Null, writes |-> store.writes + 1]

\* what the user may type into the form
FormInputs ==
  [url : {<<>>, <<"y", "t">>},
   token : {<<>>, <<" ">>, <<"t", "1">>, <<" ", "t", "2">>},
   year : {0, 2024},
   articleProjects : {<<>>, <<"A", ",", "A">>},
   remember : BOOLEAN]

\* the page is loaded: DOMContentLoaded, new YouTrackWrapped(), init()
Reload ==
  /\ session # Null
  /\ session' = NewSession
  /\ form' = loadSavedConfig(EmptyForm, storage.item)
  /\ UNCHANGED <<storage, collectVars, filterVars, statsVars, loadVars>>

\* the user fills in the form on the login screen
EditForm ==
  /\ session # Null
  /\ session.screen = "login"
  /\ form' \in FormInputs
  /\ UNCHANGED <<storage, session, collectVars, filterVars, statsVars, loadVars>>

\* submissions are followed as long as fewer than MaxWrites calls have written
MaxWrites == 3

\* the submit handler: handleLogin up to its return or to the await of loadData
HandleLogin ==
  /\ session # Null
  /\ session.screen = "login"
  /\ storage.writes < MaxWrites
  /\ LET baseUrl == Trim(form.url)
         token == Trim(form.token)
         articleProjectsInput == Trim(form.articleProjects)
     IN  session' =
           IF Len(baseUrl) = 0 \/ Len(token) = 0 \/ form.year = 0
             THEN [session EXCEPT !.loginError = TRUE]
             ELSE [session EXCEPT
                     !.config = [baseUrl |-> baseUrl, token |-> token, year |-> form.year,
                                 articleProjects |-> articleProjectsInput],
                     !.remember = form.remember,
                     !.screen = "loading"]
  /\ UNCHANGED <<storage, form, collectVars, filterVars, statsVars, loadVars>>

\* handleLogin after the await: loadData has returned (saveConfig, then the
\* rendering, which may throw into the catch) or has thrown (the catch)
AfterLoadData ==
  /\ session # Null
  /\ session.screen = "loading"
  /\ \/ /\ \E full \in BOOLEAN :
             storage' = saveConfig(storage, session.config, session.remember, full)
        /\ \E rendered \in BOOLEAN :
             session' = [session EXCEPT !.data = [loaded |-> TRUE],
                                        !.screen = IF rendered THEN "wrapped" ELSE "error"]
     \/ /\ storage' = storage
        /\ session' = [session EXCEPT !.screen = "error"]
  /\ UNCHANGED <<form, collectVars, filterVars, statsVars, loadVars>>

(***************************************************************************)
(* JavaScript built-ins used by StatisticsCalculator.                      *)
(* A string that the code only measures is modelled by its length; an      *)
(* absent string is a missing field.  An object used as a map is the       *)
(* sequence of its own entries [key, value] in insertion order.            *)
(***************************************************************************)
\* r[f]?.length || 0
LengthOr0(r, f) == IF Has(r, f) THEN r[f] ELSE 0

\* Math.round(n / d) for integers n >= 0, d > 0 (halves round up)
RoundDiv(n, d) == (2 * n + d) \div (2 * d)

\* F applied to the value of v: v is evaluated once, however often F uses it
Once(v, F(_)) == CHOOSE r \in {F(w) : w \in {v}} : TRUE

\* Array.prototype.sort((a, b) => b.k - a.k) on a sequence of [k, v]: descending by
\* k and stable, i.e. an element lands after the larger ones and after the equal
\* ones that precede it
Place(s) ==
  [i \in 1..Len(s) |->
     Cardinality({j \in 1..Len(s) : s[j].k > s[i].k \/ (s[j].k = s[i].k /\ j <= i)})]

SortDesc(s) ==
  Once(<<s, Once(s, Place)>>,
       LAMBDA a : [p \in 1..Len(a[1]) |-> a[1][CHOOSE i \in 1..Len(a[1]) : a[2][i] = p]])

\* reduce((sum, x) => sum + x, 0) over s[lo..hi]
RECURSIVE SumRange(_, _, _)
SumRange(s, lo, hi) ==
  IF lo > hi THEN 0
  ELSE IF lo = hi THEN s[lo]
  ELSE SumRange(s, lo, (lo + hi) \div 2) + SumRange(s, (lo + hi) \div 2 + 1, hi)

Sum(s) == Once(s, LAMBDA v : SumRange(v, 1, Len(v)))

\* the properties every object literal inherits from Object.prototype
InheritedKeys ==
  {"constructor", "toString", "valueOf", "hasOwnProperty", "isPrototypeOf",
   "propertyIsEnumerable", "toLocaleString", "__proto__"}

\* the value of a key that is a canonical array index ("7", "10"), else -1
ArrayIndex(key) ==
  CASE key = "7" -> 7
    [] key = "10" -> 10
    [] OTHER -> -1

HasOwn(obj, key) == \E i \in 1..Len(obj) : obj[i].key = key
OwnAt(obj, key) == CHOOSE i \in 1..Len(obj) : obj[i].key = key

\* !obj[key] where every own value is an object: true unless key is own or inherited
Falsy(obj, key) == ~HasOwn(obj, key) /\ key \notin InheritedKeys

\* Object.values / Object.entries order: array-index keys ascending, then the
\* other keys in insertion order
RECURSIVE InsertIndexAsc(_, _)
InsertIndexAsc(sorted, e) ==
  IF sorted = <<>> THEN <<e>>
  ELSE IF ArrayIndex(Head(sorted).key) <= ArrayIndex(e.key)
    THEN <<Head(sorted)>> \o InsertIndexAsc(Tail(sorted), e)
  ELSE <<e>> \o sorted

RECURSIVE IndexEntries(_)
IndexEntries(obj) ==
  IF obj = <<>> THEN <<>>
  ELSE IF ArrayIndex(Head(obj).key) >= 0
    THEN InsertIndexAsc(IndexEntries(Tail(obj)), Head(obj))
  ELSE IndexEntries(Tail(obj))

ObjectEntries(obj) ==
  IndexEntries(obj) \o SelectSeq(obj, LAMBDA e : ArrayIndex(e.key) < 0)

ObjectValues(obj) ==
  LET es == ObjectEntries(obj) IN [i \in 1..Len(es) |-> es[i].value]

(***************************************************************************)
(* StatisticsCalculator                                                    *)
(***************************************************************************)
\* the summary whose total leaves the articles out
calculateSummaryNoArticles(d) ==
  [totalIssuesCreated |-> Len(d.createdIssues),
   totalIssuesResolved |-> Len(d.resolvedIssues),
   totalComments |-> Len(d.comments),
   totalArticles |-> Len(d.articles),
   totalContributions |-> Len(d.createdIssues) + Len(d.resolvedIssues) + Len(d.comments)]

calculateSummary(d) ==
  [totalIssuesCreated |-> Len(d.createdIssues),
   totalIssuesResolved |-> Len(d.resolvedIssues),
   totalComments |-> Len(d.comments),
   totalArticles |-> Len(d.articles),
   totalContributions |-> Len(d.createdIssues) + Len(d.resolvedIssues)
                            + Len(d.comments) + Len(d.articles)]

\* project?.name || 'Unknown' and project?.shortName || '?' ('' is falsy)
ProjectName(project) ==
  IF project = Null \/ project.name = "" THEN "Unknown"
  ELSE project.name

ProjectShortName(project) ==
  IF project = Null \/ project.shortName = "" THEN "?"
  ELSE project.shortName

\* one pass of a counting loop of calculateProjectStats: the entry is created when
\* !projectCounts[projectName], then projectCounts[projectName][field]++ (on an
\* inherited key the increment lands on the inherited value, not on the map)
CountProject(projectCounts, project, field) ==
  LET projectName == ProjectName(project)
      created == IF Falsy(projectCounts, projectName)
                   THEN Append(projectCounts,
                               [key |-> projectName,
                                value |-> [name |-> projectName,
                                           shortName |-> ProjectShortName(project),
                                           issuesCreated |-> 0, issuesResolved |-> 0,
                                           comments |-> 0]])
                   ELSE projectCounts
  IN  Once(created,
           LAMBDA c : IF ~HasOwn(c, projectName) THEN c
                      ELSE [c EXCEPT ![OwnAt(c, projectName)].value[field] = @ + 1])

\* the loop over projects[lo..hi], the entries so far being projectCounts
RECURSIVE CountRange(_, _, _, _, _)
CountRange(projectCounts, projects, field, lo, hi) ==
  IF lo > hi THEN projectCounts
  ELSE IF lo = hi
    THEN Once(projectCounts, LAMBDA c : CountProject(c, projects[lo], field))
  ELSE Once(CountRange(projectCounts, projects, field, lo, (lo + hi) \div 2),
            LAMBDA c : CountRange(c, projects, field, (lo + hi) \div 2 + 1, hi))

CountProjects(projectCounts, projects, field) ==
  Once(projects, LAMBDA ps : CountRange(projectCounts, ps, field, 1, Len(ps)))

ProjectsOf(items) == [i \in 1..Len(items) |-> items[i].project]
ProjectsOfComments(comments) ==
  [i \in 1..Len(comments) |->
     IF comments[i].issue = Null THEN Null ELSE comments[i].issue.project]

WithTotalActivity(p) ==
  [name |-> p.name, shortName |-> p.shortName, issuesCreated |-> p.issuesCreated,
   issuesResolved |-> p.issuesResolved, comments |-> p.comments,
   totalActivity |-> p.issuesCreated + p.issuesResolved + p.comments]

calculateProjectStats(d) ==
  LET c1 == CountProjects(<<>>, ProjectsOf(d.createdIssues), "issuesCreated")
      c2 == CountProjects(c1, ProjectsOf(d.resolvedIssues), "issuesResolved")
      projectCounts == CountProjects(c2, ProjectsOfComments(d.comments), "comments")
      values == Once(projectCounts, ObjectValues)
      keyed == Once(values,
                    LAMBDA vs : [i \in 1..Len(vs) |->
                                   [k |-> WithTotalActivity(vs[i]).totalActivity,
                                    v |-> WithTotalActivity(vs[i])]])
      sorted == SortDesc(keyed)
  IN  Once(sorted,
           LAMBDA srt :
             LET projects == [i \in 1..Len(srt) |-> srt[i].v]
             IN  [totalProjects |-> Len(projects),
                  projects |-> projects,
                  topProject |-> IF Len(projects) = 0 THEN Null ELSE projects[1]])

\* --- calculateTimeStats -------------------------------------------------
\* the local time of the browser: tz minutes east of UTC
Local(t) == PlusMs(t, tz * 60000)

\* date.getMonth() + 1, date.getDay() (1970-01-01 was a Thursday), date.getHours()
Month(t) == CivilFromDays(Local(t).day).m
DayOfWeek(t) == (Local(t).day + 4) % 7
Hours(t) == Local(t).ms \div 3600000

\* the activities with the resolved issues among them
AllActivitiesWithResolved(d) ==
  [i \in 1..Len(d.createdIssues) |-> [type |-> "issue", timestamp |-> d.createdIssues[i].created]]
  \o [i \in 1..Len(d.resolvedIssues) |-> [type |-> "issue", timestamp |-> d.resolvedIssues[i].created]]
  \o [i \in 1..Len(d.comments) |-> [type |-> "comment", timestamp |-> d.comments[i].created]]
  \o [i \in 1..Len(d.articles) |-> [type |-> "article", timestamp |-> d.articles[i].created]]

\* [...createdIssues, ...comments, ...articles] as {type, timestamp}
AllActivities(d) ==
  [i \in 1..Len(d.createdIssues) |-> [type |-> "issue", timestamp |-> d.createdIssues[i].created]]
  \o [i \in 1..Len(d.comments) |-> [type |-> "comment", timestamp |-> d.comments[i].created]]
  \o [i \in 1..Len(d.articles) |-> [type |-> "article", timestamp |-> d.articles[i].created]]

\* the object keys -> 0 after the loop bucket[key(activity)]++ over the activities
Histogram(keys, bucketOf) ==
  Once(bucketOf, LAMBDA b : [k \in keys |-> Cardinality({i \in DOMAIN b : b[i] = k})])

\* the last of the buckets with the largest count
BusiestLastLargest(h, lo, hi) ==
  LET entries == Once(h, LAMBDA f : [i \in 1..(hi - lo + 1) |->
                                        [k |-> f[hi - i + 1], v |-> hi - i + 1]])
      first == SortDesc(entries)[1]
  IN  [key |-> first.v, count |-> first.k]

\* Object.entries(h).sort((a, b) => b[1] - a[1])[0] for integer keys lo..hi:
\* the entries come in ascending key order; the result is [key, count]
Busiest(h, lo, hi) ==
  LET entries == Once(h, LAMBDA f : [i \in 1..(hi - lo + 1) |->
                                        [k |-> f[lo + i - 1], v |-> lo + i - 1]])
      first == SortDesc(entries)[1]
  IN  [key |-> first.v, count |-> first.k]

\* `${getFullYear()}-${MM}-${DD}` of the local date, as the record [y, m, d]
DateString(t) == CivilFromDays(Local(t).day)

\* a < b on two such strings (four-digit years, zero-padded month and day)
StringLess(a, b) ==
  \/ a.y < b.y
  \/ a.y = b.y /\ a.m < b.m
  \/ a.y = b.y /\ a.m = b.m /\ a.d < b.d

\* [...activeDays].sort(): each string lands after the ones that are less
SortStrings(S) ==
  Once(S, LAMBDA T : [p \in 1..Cardinality(T) |->
                        CHOOSE x \in T : Cardinality({y \in T : StringLess(y, x)}) = p - 1])

\* new Date('YYYY-MM-DD'): midnight UTC of that date, in days since the epoch
ParseDate(str) == DaysFromCivil(str.y, str.m, str.d)

\* the for loop of calculateLongestStreak from index i on
RECURSIVE StreakLoop(_, _, _)
StreakLoop(sortedDays, i, st) ==
  IF i > Len(sortedDays) THEN st
  ELSE
    LET diffDays == ParseDate(sortedDays[i]) - ParseDate(sortedDays[i - 1])
        grown == [st EXCEPT !.currentStreak = @ + 1]
    IN  StreakLoop(sortedDays, i + 1,
          IF diffDays = 1
            THEN IF grown.currentStreak > grown.longestStreak
                   THEN [grown EXCEPT !.longestStreak = grown.currentStreak,
                                      !.longestStart = grown.currentStart,
                                      !.longestEnd = sortedDays[i]]
                   ELSE grown
            ELSE [st EXCEPT !.currentStreak = 1, !.currentStart = sortedDays[i]])

\* the loop that never starts a new run at a gap
RECURSIVE StreakLoopNoReset(_, _, _)
StreakLoopNoReset(sortedDays, i, st) ==
  IF i > Len(sortedDays) THEN st
  ELSE
    LET grown == [st EXCEPT !.currentStreak = @ + 1]
    IN  StreakLoopNoReset(sortedDays, i + 1,
          IF grown.currentStreak > grown.longestStreak
            THEN [grown EXCEPT !.longestStreak = grown.currentStreak,
                               !.longestStart = grown.currentStart,
                               !.longestEnd = sortedDays[i]]
            ELSE grown)

calculateLongestStreakNoReset(activities) ==
  IF Len(activities) = 0 THEN [days |-> 0, startDate |-> Null, endDate |-> Null]
  ELSE
    LET activeDays == Once(activities,
                           LAMBDA as : {DateString(as[i].timestamp) : i \in 1..Len(as)})
        sortedDays == SortStrings(activeDays)
        loop(sd) == StreakLoopNoReset(sd, 2, [longestStreak |-> 1, currentStreak |-> 1,
                                      longestStart |-> sd[1], longestEnd |-> sd[1],
                                      currentStart |-> sd[1]])
        st == Once(sortedDays, loop)
    IN  [days |-> st.longestStreak, startDate |-> st.longestStart, endDate |-> st.longestEnd]

calculateLongestStreak(activities) ==
  IF Len(activities) = 0 THEN [days |-> 0, startDate |-> Null, endDate |-> Null]
  ELSE
    LET activeDays == Once(activities,
                           LAMBDA as : {DateString(as[i].timestamp) : i \in 1..Len(as)})
        sortedDays == SortStrings(activeDays)
        loop(sd) == StreakLoop(sd, 2, [longestStreak |-> 1, currentStreak |-> 1,
                                      longestStart |-> sd[1], longestEnd |-> sd[1],
                                      currentStart |-> sd[1]])
        st == Once(sortedDays, loop)
    IN  [days |-> st.longestStreak, startDate |-> st.longestStart, endDate |-> st.longestEnd]

monthNames ==
  <<"January", "February", "March", "April", "May", "June", "July", "August",
    "September", "October", "November", "December">>

dayNames == <<"Sunday", "Monday", "Tuesday", "Wednesday", "Thursday", "Friday", "Saturday">>

\* the histograms of calculateTimeStats and its streak, from the activities
TimeStatsOf(allActivities) ==
  LET n == Len(allActivities)
      monthlyActivity == Histogram(1..12, [i \in 1..n |-> Month(allActivities[i].timestamp)])
      dayOfWeekActivity == Histogram(0..6, [i \in 1..n |-> DayOfWeek(allActivities[i].timestamp)])
      hourlyActivity == Histogram(0..23, [i \in 1..n |-> Hours(allActivities[i].timestamp)])
      busiestMonth == Busiest(monthlyActivity, 1, 12)
      busiestDayOfWeek == Busiest(dayOfWeekActivity, 0, 6)
      busiestHour == Busiest(hourlyActivity, 0, 23)
  IN  [monthlyActivity |-> monthlyActivity,
       dayOfWeekActivity |-> dayOfWeekActivity,
       hourlyActivity |-> hourlyActivity,
       busiestMonth |-> [month |-> busiestMonth.key,
                        monthName |-> monthNames[busiestMonth.key],
                        count |-> busiestMonth.count],
       busiestDayOfWeek |-> [day |-> busiestDayOfWeek.key,
                            dayName |-> dayNames[busiestDayOfWeek.key + 1],
                            count |-> busiestDayOfWeek.count],
       busiestHour |-> [hour |-> busiestHour.key, count |-> busiestHour.count],
       longestStreak |-> calculateLongestStreak(allActivities)]

calculateTimeStats(d) == Once(AllActivities(d), TimeStatsOf)

\* --- calculateIssueStats ------------------------------------------------
\* resolved - created, as [day, ms] with 0 <= ms < MsPerDay
Minus(a, b) ==
  IF a.ms >= b.ms THEN [day |-> a.day - b.day, ms |-> a.ms - b.ms]
  ELSE [day |-> a.day - b.day - 1, ms |-> a.ms - b.ms + MsPerDay]

\* the reduce over resolved - created: the sum of the durations, again as [day, ms]
RECURSIVE SumDurations(_)
SumDurations(issues) ==
  IF issues = <<>> THEN [day |-> 0, ms |-> 0]
  ELSE LET rest == SumDurations(Tail(issues))
           one == Minus(Head(issues).resolved, Head(issues).created)
           ms == rest.ms + one.ms
       IN  [day |-> rest.day + one.day + ms \div MsPerDay, ms |-> ms % MsPerDay]

\* the average taken over all created issues instead of the resolved ones
calculateIssueStatsOverAll(d) ==
  LET issues == d.createdIssues
      resolvedCreatedIssues == SelectSeq(issues, LAMBDA i : i.resolved # Null)
      n == Len(issues)
      sum == SumDurations(resolvedCreatedIssues)
      sortedBySummaryLength ==
        SortDesc([i \in 1..Len(d.createdIssues) |->
                    [k |-> LengthOr0(d.createdIssues[i], "summary"), v |-> d.createdIssues[i]]])
  IN  [total |-> Len(issues),
       resolved |-> Len(d.resolvedIssues),
       avgResolutionTimeMs |-> IF n > 0 THEN [sum |-> sum, count |-> n]
                               ELSE [sum |-> [day |-> 0, ms |-> 0], count |-> 1],
       avgResolutionTimeDays |-> IF n > 0
                                   THEN (2 * sum.day + n + (2 * sum.ms) \div MsPerDay) \div (2 * n)
                                   ELSE 0,
       longestSummary |-> IF Len(issues) = 0 THEN Null ELSE sortedBySummaryLength[1].v,
       shortestSummary |-> IF Len(issues) = 0 THEN Null
                           ELSE sortedBySummaryLength[Len(issues)].v]

\* the report keeps the average as the fraction sum / count; 0 is [sum 0, count 1].
\* avgResolutionTimeDays is Math.round(avg / MsPerDay) for a sum >= 0
calculateIssueStats(d) ==
  LET issues == d.createdIssues
      resolvedCreatedIssues == SelectSeq(issues, LAMBDA i : i.resolved # Null)
      n == Len(resolvedCreatedIssues)
      sum == SumDurations(resolvedCreatedIssues)
      sortedBySummaryLength ==
        SortDesc([i \in 1..Len(d.createdIssues) |->
                    [k |-> LengthOr0(d.createdIssues[i], "summary"), v |-> d.createdIssues[i]]])
  IN  [total |-> Len(issues),
       resolved |-> Len(d.resolvedIssues),
       avgResolutionTimeMs |-> IF n > 0 THEN [sum |-> sum, count |-> n]
                               ELSE [sum |-> [day |-> 0, ms |-> 0], count |-> 1],
       avgResolutionTimeDays |-> IF n > 0
                                   THEN (2 * sum.day + n + (2 * sum.ms) \div MsPerDay) \div (2 * n)
                                   ELSE 0,
       longestSummary |-> IF Len(issues) = 0 THEN Null ELSE sortedBySummaryLength[1].v,
       shortestSummary |-> IF Len(issues) = 0 THEN Null
                           ELSE sortedBySummaryLength[Len(issues)].v]

\* --- calculateCommentStats ----------------------------------------------
\* a loop body that creates the group of an issue and counts only its first comment
CountIssueFirstOnly(issueCommentCounts, comment) ==
  LET issueId == comment.issue.idReadable
  IN  IF Falsy(issueCommentCounts, issueId)
        THEN Append(issueCommentCounts,
                    [key |-> issueId, value |-> [issue |-> comment.issue, count |-> 1]])
        ELSE issueCommentCounts

\* one pass of the loop over the comments that counts them by comment.issue.idReadable
CountIssue(issueCommentCounts, comment) ==
  LET issueId == comment.issue.idReadable
      created == IF Falsy(issueCommentCounts, issueId)
                   THEN Append(issueCommentCounts,
                               [key |-> issueId, value |-> [issue |-> comment.issue, count |-> 0]])
                   ELSE issueCommentCounts
  IN  Once(created,
           LAMBDA c : IF ~HasOwn(c, issueId) THEN c
                      ELSE [c EXCEPT ![OwnAt(c, issueId)].value.count = @ + 1])

\* the loop over comments[lo..hi]
RECURSIVE CountIssueRange(_, _, _, _)
CountIssueRange(issueCommentCounts, comments, lo, hi) ==
  IF lo > hi THEN issueCommentCounts
  ELSE IF lo = hi
    THEN Once(issueCommentCounts, LAMBDA c : CountIssue(c, comments[lo]))
  ELSE Once(CountIssueRange(issueCommentCounts, comments, lo, (lo + hi) \div 2),
            LAMBDA c : CountIssueRange(c, comments, (lo + hi) \div 2 + 1, hi))

CountIssues(issueCommentCounts, comments) ==
  Once(comments, LAMBDA cs : CountIssueRange(issueCommentCounts, cs, 1, Len(cs)))

calculateCommentStats(d) ==
  LET comments == d.comments
      commentLengths == [i \in 1..Len(d.comments) |->
                           [k |-> LengthOr0(d.comments[i], "text"), v |-> d.comments[i]]]
      totalChars == Sum([i \in 1..Len(d.comments) |-> LengthOr0(d.comments[i], "text")])
      sorted == SortDesc(commentLengths)
      values == Once(CountIssues(<<>>, comments), ObjectValues)
      byCount == SortDesc(Once(values, LAMBDA vs : [i \in 1..Len(vs) |->
                                                     [k |-> vs[i].count, v |-> vs[i]]]))
  IN  IF Len(comments) = 0
        THEN [total |-> 0, avgLength |-> 0, longestComment |-> Null,
              shortestComment |-> Null, totalCharacters |-> 0, mostCommentedIssue |-> Null]
        ELSE [total |-> Len(comments),
              avgLength |-> RoundDiv(totalChars, Len(comments)),
              totalCharacters |-> totalChars,
              longestComment |-> sorted[1].v,
              shortestComment |-> sorted[Len(sorted)].v,
              mostCommentedIssue |-> IF Len(byCount) = 0 THEN Null ELSE byCount[1].v]

\* --- calculateArticleStats ----------------------------------------------
calculateArticleStats(d) ==
  LET articles == d.articles
      contentLengths == [i \in 1..Len(d.articles) |->
                           [k |-> LengthOr0(d.articles[i], "content"), v |-> d.articles[i]]]
      totalLength == Sum([i \in 1..Len(d.articles) |-> LengthOr0(d.articles[i], "content")])
      sorted == SortDesc(contentLengths)
  IN  IF Len(articles) = 0
        THEN [total |-> 0, totalContentLength |-> 0, avgContentLength |-> 0,
              longestArticle |-> Null]
        ELSE [total |-> Len(articles),
              totalContentLength |-> totalLength,
              avgContentLength |-> RoundDiv(totalLength, Len(articles)),
              longestArticle |-> sorted[1].v]

\* --- calculateFunFacts --------------------------------------------------
Personality(hour) ==
  IF hour >= 5 /\ hour < 9 THEN "Early Bird"
  ELSE IF hour >= 9 /\ hour < 12 THEN "Morning Person"
  ELSE IF hour >= 12 /\ hour < 17 THEN "Afternoon Warrior"
  ELSE IF hour >= 17 /\ hour < 21 THEN "Evening Coder"
  ELSE "Night Owl"

\* the facts with the issues-per-month fact given for any created issue
FunFactsOfAnyIssue(summary, commentStats, timeStats) ==
  LET pages == RoundDiv(commentStats.totalCharacters, 3000)
      n == summary.totalIssuesCreated
  IN  (IF commentStats.totalCharacters > 0 /\ pages > 0
         THEN <<[icon |-> "pages", characters |-> commentStats.totalCharacters,
                 pages |-> pages]>>
         ELSE <<>>)
      \o (IF timeStats.busiestDayOfWeek # Null
            THEN <<[icon |-> "calendar", dayName |-> timeStats.busiestDayOfWeek.dayName,
                    count |-> timeStats.busiestDayOfWeek.count]>>
            ELSE <<>>)
      \o (IF timeStats.busiestHour # Null
            THEN <<[icon |-> "clock", personality |-> Personality(timeStats.busiestHour.hour),
                    hour |-> timeStats.busiestHour.hour]>>
            ELSE <<>>)
      \o (IF timeStats.longestStreak # Null /\ timeStats.longestStreak.days > 1
            THEN <<[icon |-> "fire", days |-> timeStats.longestStreak.days,
                    startDate |-> timeStats.longestStreak.startDate,
                    endDate |-> timeStats.longestStreak.endDate]>>
            ELSE <<>>)
      \o (IF n >= 1
            THEN <<[icon |-> "chart", perMonth |-> RoundDiv(n, 12),
                    everyDays |-> RoundDiv(360, n)]>>
            ELSE <<>>)

\* a fact is its icon with the values its two texts are built from.  The
\* issues-per-month fact: monthlyIssues = n / 12 >= 1 iff n >= 12, and
\* Math.round(30 / monthlyIssues) = Math.round(360 / n)
FunFactsOf(summary, commentStats, timeStats) ==
  LET pages == RoundDiv(commentStats.totalCharacters, 3000)
      n == summary.totalIssuesCreated
  IN  (IF commentStats.totalCharacters > 0 /\ pages > 0
         THEN <<[icon |-> "pages", characters |-> commentStats.totalCharacters,
                 pages |-> pages]>>
         ELSE <<>>)
      \o (IF timeStats.busiestDayOfWeek # Null
            THEN <<[icon |-> "calendar", dayName |-> timeStats.busiestDayOfWeek.dayName,
                    count |-> timeStats.busiestDayOfWeek.count]>>
            ELSE <<>>)
      \o (IF timeStats.busiestHour # Null
            THEN <<[icon |-> "clock", personality |-> Personality(timeStats.busiestHour.hour),
                    hour |-> timeStats.busiestHour.hour]>>
            ELSE <<>>)
      \o (IF timeStats.longestStreak # Null /\ timeStats.longestStreak.days > 1
            THEN <<[icon |-> "fire", days |-> timeStats.longestStreak.days,
                    startDate |-> timeStats.longestStreak.startDate,
                    endDate |-> timeStats.longestStreak.endDate]>>
            ELSE <<>>)
      \o (IF n >= 12
            THEN <<[icon |-> "chart", perMonth |-> RoundDiv(n, 12),
                    everyDays |-> RoundDiv(360, n)]>>
            ELSE <<>>)

calculateFunFacts(d) ==
  Once(<<calculateSummary(d), calculateCommentStats(d), calculateTimeStats(d)>>,
       LAMBDA v : FunFactsOf(v[1], v[2], v[3]))

\* --- calculateAchievements ----------------------------------------------
\* the ids of the badges, in the order they are pushed
AchievementsOf(summary, timeStats, projectStats) ==
  LET hourly == timeStats.hourlyActivity
      weekendActivity == timeStats.dayOfWeekActivity[0] + timeStats.dayOfWeekActivity[6]
      nightActivity == hourly[22] + hourly[23] + hourly[0] + hourly[1] + hourly[2]
                         + hourly[3] + hourly[4]
      morningActivity == hourly[5] + hourly[6] + hourly[7] + hourly[8]
  IN  (IF summary.totalIssuesCreated >= 100 THEN <<"issue_master">>
       ELSE IF summary.totalIssuesCreated >= 50 THEN <<"issue_expert">>
       ELSE IF summary.totalIssuesCreated >= 20 THEN <<"issue_enthusiast">>
       ELSE IF summary.totalIssuesCreated >= 5 THEN <<"issue_starter">>
       ELSE <<>>)
      \o (IF summary.totalIssuesResolved >= 100 THEN <<"bug_crusher">>
          ELSE IF summary.totalIssuesResolved >= 50 THEN <<"bug_hunter">>
          ELSE IF summary.totalIssuesResolved >= 20 THEN <<"bug_squasher">>
          ELSE <<>>)
      \o (IF summary.totalComments >= 500 THEN <<"chatterbox">>
          ELSE IF summary.totalComments >= 200 THEN <<"conversationalist">>
          ELSE IF summary.totalComments >= 50 THEN <<"contributor">>
          ELSE <<>>)
      \o (IF summary.totalArticles >= 20 THEN <<"documentation_hero">>
          ELSE IF summary.totalArticles >= 10 THEN <<"knowledge_sharer">>
          ELSE IF summary.totalArticles >= 3 THEN <<"writer">>
          ELSE <<>>)
      \o (IF timeStats.longestStreak.days >= 30 THEN <<"unstoppable">>
          ELSE IF timeStats.longestStreak.days >= 14 THEN <<"consistent">>
          ELSE IF timeStats.longestStreak.days >= 7 THEN <<"dedicated">>
          ELSE <<>>)
      \o (IF projectStats.totalProjects >= 10 THEN <<"polyglot">>
          ELSE IF projectStats.totalProjects >= 5 THEN <<"versatile">>
          ELSE <<>>)
      \o (IF weekendActivity > 20 THEN <<"weekend_warrior">> ELSE <<>>)
      \o (IF nightActivity > 20 THEN <<"night_owl">> ELSE <<>>)
      \o (IF morningActivity > 20 THEN <<"early_bird">> ELSE <<>>)

calculateAchievements(d) ==
  Once(<<calculateSummary(d), calculateTimeStats(d), calculateProjectStats(d)>>,
       LAMBDA v : AchievementsOf(v[1], v[2], v[3]))

\* --- calculateAll -------------------------------------------------------
calculateAll(d) ==
  [user |-> d.user,
   year |-> d.year,
   summary |-> calculateSummary(d),
   issueStats |-> calculateIssueStats(d),
   commentStats |-> calculateCommentStats(d),
   articleStats |-> calculateArticleStats(d),
   projectStats |-> calculateProjectStats(d),
   timeStats |-> calculateTimeStats(d),
   funFacts |-> calculateFunFacts(d),
   achievements |-> calculateAchievements(d)]

\* --- the arrays that calculateAll creates and sorts ------------------------
\* The arrays in play, by name: the four of this.data and the ones the methods
\* create.  sort() reorders the array it is called on, in place.
Arrays(d) ==
  [createdIssues |-> d.createdIssues, resolvedIssues |-> d.resolvedIssues,
   comments |-> d.comments, articles |-> d.articles]

\* const name = [...items] or items.map(...): a new array
NewArray(h, name, items) == (name :> items) @@ h

\* h[name].sort((a, b) => length(b) - length(a)), length(x) = x[field]?.length || 0
SortInPlace(h, name, field) ==
  Once(SortDesc([i \in 1..Len(h[name]) |->
                   [k |-> LengthOr0(h[name][i], field), v |-> h[name][i]]]),
       LAMBDA srt : [h EXCEPT ![name] = [i \in 1..Len(srt) |-> srt[i].v]])

\* calculateIssueStats sorting this.data.createdIssues itself
IssueStatsArraysNoCopy(h) ==
  SortInPlace(h, "createdIssues", "summary")

\* calculateIssueStats: [...issues].sort(...)
IssueStatsArrays(h) ==
  SortInPlace(NewArray(h, "sortedBySummaryLength", h["createdIssues"]),
              "sortedBySummaryLength", "summary")

\* calculateCommentStats: comments.map(...) and commentLengths.sort(...); the
\* new array is kept as the comments its elements wrap
CommentStatsArrays(h) ==
  IF Len(h["comments"]) = 0 THEN h
  ELSE SortInPlace(NewArray(h, "commentLengths", h["comments"]), "commentLengths", "text")

\* calculateArticleStats: articles.map(...) and contentLengths.sort(...)
ArticleStatsArrays(h) ==
  IF Len(h["articles"]) = 0 THEN h
  ELSE SortInPlace(NewArray(h, "contentLengths", h["articles"]), "contentLengths", "content")

\* this.data after calculateAll: the three methods above in the order of the
\* object literal, and calculateCommentStats once more from calculateFunFacts;
\* the other methods build their arrays from scratch and sort only those
DataAfterCalculateAll(d) ==
  LET h == CommentStatsArrays(ArticleStatsArrays(CommentStatsArrays(IssueStatsArrays(Arrays(d)))))
  IN  [d EXCEPT !.createdIssues = h["createdIssues"],
                !.resolvedIssues = h["resolvedIssues"],
                !.comments = h["comments"],
                !.articles = h["articles"]]

\* new StatisticsCalculator(data).calculateAll()
CalculateAll ==
  /\ data # Null
  /\ report = Null
  /\ report' = calculateAll(data)
  /\ data' = DataAfterCalculateAll(data)
  /\ UNCHANGED <<tz, collectVars, filterVars, loadVars, loginVars>>

\* new StatisticsCalculator(data).calculateAchievements()
CalculateAchievements ==
  /\ data # Null
  /\ report = Null
  /\ report' = [achievements |-> calculateAchievements(data)]
  /\ UNCHANGED <<data, tz, collectVars, filterVars, loadVars, loginVars>>

\* calculateFunFacts called on its own
CalculateFunFacts ==
  /\ data # Null
  /\ report = Null
  /\ report' = [funFacts |-> calculateFunFacts(data)]
  /\ UNCHANGED <<data, tz, collectVars, filterVars, loadVars, loginVars>>

(***************************************************************************)
(* Specifications                                                          *)
(***************************************************************************)
MaxFullPages == 2

ProjectSet == {Projects[i] : i \in 1..Len(Projects)}
\* the last list names a project twice (the form field is split at commas and not
\* deduplicated)
ProjectLists == {<<>>, <<"B">>, <<"A", "B", "C">>, <<"A", "A">>}

StatsIdle ==
  /\ data = Null
  /\ tz = 0
  /\ report = Null

CollectIdle ==
  /\ pc = "idle"
  /\ articleProjects = <<>>
  /\ onProgress = "absent"
  /\ userCall = [status |-> "none", error |-> Null]
  /\ currentUser = Null
  /\ calls = [c \in IssueCalls |-> IdleCall]
  /\ art = IdleArt
  /\ all = [status |-> "none", error |-> Null]
  /\ failOrder = <<>>
  /\ outcome = Null

\* collectYearData against a tracker whose queries match none, a short page or a full page
Init ==
  /\ CollectIdle
  /\ LoginIdle
  /\ year = 0
  /\ server = [user |-> [login |-> "alice"],
               total |-> [c \in IssueCalls |-> IF c = "created" THEN top ELSE ShortPage],
               articles |-> [p \in ProjectSet |->
                               IF p = "B" THEN top + ShortPage ELSE ShortPage]]
  /\ FilterIdle
  /\ LoadIdle
  /\ StatsIdle

Next ==
  \/ \E projects \in ProjectLists, mode \in ProgressModes :
       CollectYearData(2025, projects, mode)
  \/ UserResponse
  \/ \E c \in IssueCalls : IssueResponse(c)
  \/ ArticlesResponse

Spec == Init /\ [][Next]_vars

\* the client's fetches called directly
InitClient ==
  /\ CollectIdle
  /\ LoginIdle
  /\ year = 2025
  /\ \/ \E n \in {f * top + s : f \in 0..MaxFullPages, s \in {0, ShortPage}} :
          server = [user |-> [login |-> "alice"],
                    total |-> [c \in IssueCalls |-> n],
                    articles |-> [p \in ProjectSet |-> ShortPage]]
     \/ \E a, b \in {0, ShortPage, top + ShortPage} :
          server = [user |-> [login |-> "alice"],
                    total |-> [c \in IssueCalls |-> ShortPage],
                    articles |-> [p \in ProjectSet |->
                                    IF p = "A" THEN a ELSE IF p = "B" THEN b ELSE ShortPage]]
  /\ FilterIdle
  /\ LoadIdle
  /\ StatsIdle

NextClient ==
  \/ \E c \in IssueCalls, userId \in Logins, mode \in ProgressModes :
       CallGetIssues(c, userId, mode)
  \/ \E projects \in ProjectLists, mode \in ProgressModes : CallGetArticles(projects, mode)
  \/ \E c \in IssueCalls : IssueResponse(c)
  \/ ArticlesResponse

SpecClient == InitClient /\ [][NextClient]_vars

\* the page in a browser that holds no settings yet
InitLogin ==
  /\ CollectIdle
  /\ year = 0
  /\ server = Null
  /\ FilterIdle
  /\ LoadIdle
  /\ StatsIdle
  /\ storage = [item |-> Null, writes |-> 0]
  /\ form = loadSavedConfig(EmptyForm, Null)
  /\ session = NewSession

NextLogin == Reload \/ EditForm \/ HandleLogin \/ AfterLoadData

SpecLogin == InitLogin /\ [][NextLogin]_vars

\* the two filters on their own
InitFilter ==
  /\ CollectIdle
  /\ LoginIdle
  /\ year = 0
  /\ server = Null
  /\ InitFilterVars
  /\ LoadIdle
  /\ StatsIdle

NextFilter == ExtractUserComments \/ FilterArticles

SpecFilter == InitFilter /\ [][NextFilter]_vars

\* one request and the catch of loadData above it
InitLoad ==
  /\ CollectIdle
  /\ LoginIdle
  /\ year = 0
  /\ server = Null
  /\ FilterIdle
  /\ StatsIdle
  /\ \E f \in FetchOutcomes :
       load = [pc |-> "fetching", fetch |-> f, message |-> <<>>, shown |-> "none"]

NextLoad == Request \/ LoadDataCatch

SpecLoad == InitLoad /\ [][NextLoad]_vars

(***************************************************************************)
(* StatisticsCalculator on bounded datasets.                               *)
(***************************************************************************)
MaxEvents == 3
MaxGrouped == 2

\* the browser's zone: UTC, UTC-08:00, UTC+05:30
Zones == {0, -480, 330}

At(y, m, d, h, mi) == DateUTC(y, m, d, h, mi, 0)

\* instants of 2025-03-01..05 (UTC), some of them close to midnight
EventInstants ==
  {At(2025, 3, 1, 12, 0), At(2025, 3, 1, 23, 30), At(2025, 3, 2, 0, 15),
   At(2025, 3, 3, 12, 0), At(2025, 3, 5, 12, 0)}

ProjectPool ==
  {Null,
   [name |-> "Alpha", shortName |-> "AL"],
   [name |-> "Beta", shortName |-> "BE"],
   [name |-> "constructor", shortName |-> "CT"],
   [name |-> "7", shortName |-> "SEVEN"],
   [name |-> "", shortName |-> ""]}

\* an issue, a comment and an article of a RawYearDataset
StatIssue(k, created, resolved, project) ==
  [id |-> k, idReadable |-> "I", summary |-> 10 * k, created |-> created,
   resolved |-> resolved, project |-> project]

StatComment(k, created, text, project) ==
  [id |-> k, text |-> text, created |-> created,
   issue |-> [id |-> 1, idReadable |-> "I", summary |-> 10, project |-> project]]

StatArticle(k, created) == [id |-> k, content |-> 2000, created |-> created]

RawYearDataset(createdIssues, resolvedIssues, comments, articles) ==
  [user |-> [login |-> "alice"], year |-> 2025, createdIssues |-> createdIssues,
   resolvedIssues |-> resolvedIssues, comments |-> comments, articles |-> articles]

\* up to MaxEvents created issues at any of the instants, alone or with a comment
\* on 2025-03-04 and an article on 2025-03-06
EventDatasets ==
  { RawYearDataset([k \in 1..Len(ts) |-> StatIssue(k, ts[k], Null, Null)], <<>>,
                   IF more THEN <<StatComment(1, At(2025, 3, 4, 12, 0), 4600, Null)>> ELSE <<>>,
                   IF more THEN <<StatArticle(1, At(2025, 3, 6, 12, 0))>> ELSE <<>>) :
      ts \in SeqsUpTo(EventInstants, MaxEvents), more \in BOOLEAN }

\* activity on 2025-03-01..05 and on 2025-03-10
StreakExample ==
  RawYearDataset([k \in 1..5 |-> StatIssue(k, At(2025, 3, k, 12, 0), Null, Null)], <<>>,
                 <<StatComment(1, At(2025, 3, 10, 12, 0), 40, Null)>>, <<>>)

\* up to MaxGrouped created issues, at most one resolved issue (the first created
\* one when the projects agree), at most one comment and at most one article
GroupedDatasets ==
  { RawYearDataset(
      [k \in 1..Len(ps) |->
         StatIssue(k, At(2025, 3, 1, 12, 0),
                   IF k = 1 THEN At(2025, 3, 2, 18, 0) ELSE Null, ps[k])],
      [k \in 1..Len(rs) |-> StatIssue(1, At(2025, 3, 1, 12, 0), At(2025, 3, 2, 18, 0), rs[k])],
      [k \in 1..Len(cs) |-> StatComment(k, At(2025, 3, 1, 12, 0), 1700, cs[k])],
      IF art1 THEN <<StatArticle(1, At(2025, 3, 1, 12, 0))>> ELSE <<>>) :
      ps \in SeqsUpTo(ProjectPool, MaxGrouped),
      rs \in SeqsUpTo({p \in ProjectPool : p = Null \/ p.name \in {"Alpha", "constructor"}}, 1),
      cs \in SeqsUpTo({p \in ProjectPool : p # Null /\ p.name \in {"Alpha", "Beta"}}, 1),
      art1 \in BOOLEAN }

\* up to MaxEvents issues created at noon of 2025-03-01, each unresolved or
\* resolved 6, 36 or 96 hours later, with or without one resolved issue that
\* was created earlier
ResolvedInstants ==
  {Null, At(2025, 3, 1, 18, 0), At(2025, 3, 3, 0, 0), At(2025, 3, 5, 12, 0)}

ResolutionDatasets ==
  { RawYearDataset(
      [k \in 1..Len(rs) |-> StatIssue(k, At(2025, 3, 1, 12, 0), rs[k], Null)],
      IF old THEN <<StatIssue(9, At(2024, 12, 1, 12, 0), At(2025, 3, 1, 12, 0), Null)>>
             ELSE <<>>,
      <<>>, <<>>) :
      rs \in SeqsUpTo(ResolvedInstants, MaxEvents), old \in BOOLEAN }

\* datasets large enough for the badges: nc created issues spread over the first
\* `days` days of March and over the first `projs` project names, nr resolved
\* issues, nm comments and na articles, all of them at noon of 2025-03-01
ProjectNames ==
  <<"P01", "P02", "P03", "P04", "P05", "P06", "P07", "P08", "P09", "P10", "P11">>

BadgeProject(k, quirk) ==
  [name |-> IF quirk /\ k = 5 THEN "constructor" ELSE ProjectNames[k],
   shortName |-> ProjectNames[k]]

MarchNoon(offset) == [day |-> DaysFromCivil(2025, 3, 1) + offset, ms |-> 43200000]

BadgeDataset(nc, nr, nm, na, days, projs, quirk) ==
  RawYearDataset(
    [k \in 1..nc |-> StatIssue(k, MarchNoon((k - 1) % days), Null,
                               BadgeProject(((k - 1) % projs) + 1, quirk))],
    [k \in 1..nr |-> StatIssue(1000 + k, MarchNoon(0), MarchNoon(1), BadgeProject(1, quirk))],
    [k \in 1..nm |-> StatComment(k, MarchNoon(0), 40, BadgeProject(1, quirk))],
    [k \in 1..na |-> StatArticle(k, MarchNoon(0))])

\* 11, 12 or 13 created issues on one day or on two consecutive days, with no
\* comment or with 37 or 38 comments of 40 characters
MonthlyDatasets ==
  {BadgeDataset(nc, 0, nm, 0, days, 1, FALSE) :
     nc \in {11, 12, 13}, nm \in {0, 37, 38}, days \in {1, 2}}

\* up to MaxEvents comments of 40 characters, each on one of three issues of two
\* projects, in any order
CommentedDatasets ==
  { RawYearDataset(<<>>, <<>>,
      [k \in 1..Len(ids) |->
         [id |-> k, text |-> 40, created |-> At(2025, 3, 1, 12, 0),
          issue |-> [id |-> IF ids[k] = "AL-1" THEN 11 ELSE IF ids[k] = "AL-2" THEN 12 ELSE 27,
                     idReadable |-> ids[k], summary |-> 10,
                     project |-> [name |-> "Alpha", shortName |-> "AL"]]]],
      <<>>) :
      ids \in SeqsUpTo({"AL-1", "AL-2", "BE-7"}, MaxEvents) }

InitStats ==
  /\ CollectIdle
  /\ LoginIdle
  /\ year = 0
  /\ server = Null
  /\ FilterIdle
  /\ LoadIdle
  /\ \/ data \in EventDatasets \cup {StreakExample}
        /\ tz \in IF data.comments = <<>> \/ data = StreakExample THEN Zones ELSE {0}
     \/ /\ data \in GroupedDatasets \cup ResolutionDatasets \cup MonthlyDatasets
                      \cup CommentedDatasets
        /\ tz = 0
  /\ report = Null

NextStats == CalculateAll

SpecStats == InitStats /\ [][NextStats]_vars

\* counts at and around the thresholds of each ladder
BadgeDatasets ==
  {BadgeDataset(nc, 0, 0, na, 1, 1, FALSE) :
     nc \in {0, 4, 5, 19, 20, 49, 50, 75, 99, 100, 101}, na \in {0, 2, 3, 9, 10, 19, 20, 21}}
  \cup {BadgeDataset(5, nr, 0, 0, 1, 1, FALSE) : nr \in {19, 20, 49, 50, 99, 100, 101}}
  \cup {BadgeDataset(5, 0, nm, 0, 1, 1, FALSE) : nm \in {49, 50, 199, 200, 499, 500, 501}}
  \cup {BadgeDataset(31, 0, 0, 0, days, 1, FALSE) : days \in {6, 7, 13, 14, 29, 30, 31}}
  \cup {BadgeDataset(11, 0, 0, 0, 1, projs, quirk) :
          projs \in {4, 5, 9, 10, 11}, quirk \in BOOLEAN}

InitAchievements ==
  /\ CollectIdle
  /\ LoginIdle
  /\ year = 0
  /\ server = Null
  /\ FilterIdle
  /\ LoadIdle
  /\ data \in BadgeDatasets
  /\ tz = 0
  /\ report = Null

NextAchievements == CalculateAchievements

SpecAchievements == InitAchievements /\ [][NextAchievements]_vars

\* up to 60 created issues, or what eight pages of the created-issues fetch hold
\* (719 to 721 of them), on one day or spread over two
FunFactDatasets ==
  {BadgeDataset(nc, 0, 0, 0, days, 1, FALSE) :
     nc \in 0..60 \cup {719, 720, 721}, days \in {1, 2}}

InitFunFacts ==
  /\ CollectIdle
  /\ LoginIdle
  /\ year = 0
  /\ server = Null
  /\ FilterIdle
  /\ LoadIdle
  /\ data \in FunFactDatasets
  /\ tz = 0
  /\ report = Null

NextFunFacts == CalculateFunFacts

SpecFunFacts == InitFunFacts /\ [][NextFunFacts]_vars

(***************************************************************************)
(* Properties                                                              *)
(***************************************************************************)
\* the pages the tracker holds for issue query c, concatenated
AllServerIssues(c) == [k \in 1..server.total[c] |-> ServerIssue(c, k, year)]

\* C1: an issue fetch requests $skip = 0, 100, 200, ... in that order, every
\* request but the last was answered with a full page (no request follows a
\* short page), and a fetch that returns has issued exactly n requests, where the
\* tracker answers n-1 full pages and then a short one, and returns all pages
\* concatenated in request order.
C1_Pagination ==
  \A c \in IssueCalls :
    LET call == calls[c]
        total == server.total[c]
    IN  /\ \A i \in 1..Len(call.requests) : call.requests[i] = (i - 1) * top
        /\ \A i \in 1..(Len(call.requests) - 1) : PageLen(total, call.requests[i]) = top
        /\ call.status = "fulfilled" =>
             /\ Len(call.requests) = (total \div top) + 1
             /\ PageLen(total, call.requests[Len(call.requests)]) < top
             /\ call.allIssues = AllServerIssues(c)

\* pages of size [100, 100, 37]: 237 items from exactly 3 requests
C1_Witness ==
  \E c \in IssueCalls :
    /\ server.total[c] = 2 * top + ShortPage
    /\ calls[c].status = "fulfilled"
    /\ calls[c].requests = <<0, top, 2 * top>>
    /\ Len(calls[c].allIssues) = 2 * top + ShortPage

\* the projects of the list for which the catch of getArticles logged a failed request
FailedProjects == {art.warned[i][1] : i \in {j \in 1..Len(art.warned) : art.warned[j][2] \in Failures}}

ArticlesPresent(p) ==
  {ServerArticle(p, k, year) : k \in 1..server.articles[p]}
    \subseteq {art.allArticles[j] : j \in 1..Len(art.allArticles)}

\* C2: when a request for one project fails, getArticles goes on to request the
\* projects after it, and the collection it returns holds every article of each
\* project of the list whose requests did not fail, before or after the failing one.
C2_ArticleIsolation ==
  /\ \A i \in 1..Len(articleProjects) :
       (articleProjects[i] \in FailedProjects /\ i < Len(articleProjects)) =>
         \E r \in 1..Len(art.requests) : art.requests[r] = <<articleProjects[i + 1], 0>>
  /\ art.status = "fulfilled" =>
       \A i \in 1..Len(articleProjects) :
         /\ \E r \in 1..Len(art.requests) : art.requests[r][1] = articleProjects[i]
         /\ articleProjects[i] \notin FailedProjects => ArticlesPresent(articleProjects[i])

\* "B" fails between "A" and "C", which both have articles
C2_Witness ==
  /\ art.status = "fulfilled"
  /\ articleProjects = <<"A", "B", "C">>
  /\ FailedProjects = {"B"}
  /\ server.articles["A"] > 0
  /\ server.articles["C"] > 0
  /\ Len(art.allArticles) = server.articles["A"] + server.articles["C"]

\* C3: once a call of the fan-out has failed, collectYearData has failed with the
\* error of the call that failed first, and it never returns a dataset, whatever
\* the other calls do afterwards.
C3_FirstFailureWins ==
  failOrder # <<>> =>
    /\ pc = "failed"
    /\ outcome = Threw(calls[failOrder[1]].error)

\* two calls failed for different causes, a third returned, the fourth is in flight
C3_Witness ==
  /\ Len(failOrder) = 2
  /\ calls[failOrder[1]].error.cause # calls[failOrder[2]].error.cause
  /\ \E c \in IssueCalls : calls[c].status = "fulfilled"
  /\ art.status = "inflight"
  /\ outcome = Threw(calls[failOrder[1]].error)

\* the closed window of year y, written out
InWindow(t, y) ==
  /\ Geq(t, [day |-> DaysFromCivil(y, 1, 1), ms |-> 0])
  /\ Leq(t, [day |-> DaysFromCivil(y, 12, 31), ms |-> 86399000])

\* the comments of the input, with the issue each belongs to
InputComments ==
  UNION { {filterIn.issues[i].comments[k] : k \in 1..Len(filterIn.issues[i].comments)} :
            i \in {j \in 1..Len(filterIn.issues) : Has(filterIn.issues[j], "comments")} }

CommentExtracted(c) == \E k \in 1..Len(filterOut.comments) : filterOut.comments[k].id = c.id
ArticleFiltered(a) == \E k \in 1..Len(filterOut.articles) : filterOut.articles[k].id = a.id

ByUser(who) == who # Null /\ who.login = filterIn.userLogin

\* C4: a comment (an article) is kept exactly when its author (reporter) is the
\* target user and its creation instant lies in the closed interval
\* [{year}-01-01T00:00:00Z, {year}-12-31T23:59:59Z].
C4_ClosedInterval ==
  /\ "comments" \in filterOut.ran =>
       \A c \in InputComments :
         CommentExtracted(c) <=> (ByUser(c.author) /\ InWindow(c.created, filterIn.year))
  /\ "articles" \in filterOut.ran =>
       \A i \in 1..Len(filterIn.articles) :
         ArticleFiltered(filterIn.articles[i]) <=>
           (ByUser(filterIn.articles[i].reporter)
              /\ InWindow(filterIn.articles[i].created, filterIn.year))

\* the user's comments at exactly the upper bound and at the next year's first
\* instant: the first is kept, the second dropped
C4_Witness ==
  /\ "comments" \in filterOut.ran
  /\ Len(filterIn.issues) = 1
  /\ Len(filterIn.issues[1].comments) = 2
  /\ LET c1 == filterIn.issues[1].comments[1]
         c2 == filterIn.issues[1].comments[2]
     IN  /\ ByUser(c1.author) /\ ByUser(c2.author)
         /\ c1.created = [day |-> DaysFromCivil(filterIn.year, 12, 31), ms |-> 86399000]
         /\ c2.created = [day |-> DaysFromCivil(filterIn.year + 1, 1, 1), ms |-> 0]
         /\ Len(filterOut.comments) = 1
         /\ filterOut.comments[1].id = c1.id

\* C5: every comment of the target user created on a UTC day from {year}-01-01
\* through {year}-12-31, at any instant of that day, is extracted.
C5_WholeUtcDays ==
  "comments" \in filterOut.ran =>
    \A c \in InputComments :
      ( /\ ByUser(c.author)
        /\ c.created.day >= DaysFromCivil(filterIn.year, 1, 1)
        /\ c.created.day <= DaysFromCivil(filterIn.year, 12, 31) )
      => CommentExtracted(c)

\* the empty dataset
EmptyDataset ==
  /\ data.createdIssues = <<>> /\ data.resolvedIssues = <<>>
  /\ data.comments = <<>> /\ data.articles = <<>>

\* C6: the report of the empty dataset has no fun fact, no achievement, no top
\* project and the streak {days: 0, startDate: null, endDate: null}.
C6_EmptyReport ==
  (report # Null /\ EmptyDataset) =>
    /\ report.funFacts = <<>>
    /\ report.achievements = <<>>
    /\ report.projectStats.topProject = Null
    /\ report.timeStats.longestStreak = [days |-> 0, startDate |-> Null, endDate |-> Null]

\* the six ladders, highest threshold first
Ladders ==
  [created |-> <<[at |-> 100, id |-> "issue_master"], [at |-> 50, id |-> "issue_expert"],
                 [at |-> 20, id |-> "issue_enthusiast"], [at |-> 5, id |-> "issue_starter"]>>,
   resolved |-> <<[at |-> 100, id |-> "bug_crusher"], [at |-> 50, id |-> "bug_hunter"],
                  [at |-> 20, id |-> "bug_squasher"]>>,
   comments |-> <<[at |-> 500, id |-> "chatterbox"], [at |-> 200, id |-> "conversationalist"],
                  [at |-> 50, id |-> "contributor"]>>,
   articles |-> <<[at |-> 20, id |-> "documentation_hero"], [at |-> 10, id |-> "knowledge_sharer"],
                  [at |-> 3, id |-> "writer"]>>,
   streak |-> <<[at |-> 30, id |-> "unstoppable"], [at |-> 14, id |-> "consistent"],
                [at |-> 7, id |-> "dedicated"]>>,
   projects |-> <<[at |-> 10, id |-> "polyglot"], [at |-> 5, id |-> "versatile"]>>]

\* the local calendar days (as day numbers) on which the dataset has an activity
ActiveDays ==
  {Local(data.createdIssues[i].created).day : i \in 1..Len(data.createdIssues)}
  \cup {Local(data.comments[i].created).day : i \in 1..Len(data.comments)}
  \cup {Local(data.articles[i].created).day : i \in 1..Len(data.articles)}

IsRun(S, start, n) == \A k \in 0..(n - 1) : start + k \in S

\* the length of the longest run of consecutive days in S
LongestRun(S) ==
  CHOOSE n \in 0..Cardinality(S) :
    /\ n > 0 => \E start \in S : IsRun(S, start, n)
    /\ \A start \in S : ~IsRun(S, start, n + 1)

\* the project display names of the dataset
DisplayNames ==
  {ProjectName(data.createdIssues[i].project) : i \in 1..Len(data.createdIssues)}
  \cup {ProjectName(data.resolvedIssues[i].project) : i \in 1..Len(data.resolvedIssues)}
  \cup {ProjectName(data.comments[i].issue.project) : i \in 1..Len(data.comments)}

LadderCounts ==
  [created |-> Len(data.createdIssues), resolved |-> Len(data.resolvedIssues),
   comments |-> Len(data.comments), articles |-> Len(data.articles),
   streak |-> LongestRun(ActiveDays), projects |-> Cardinality(DisplayNames)]

\* the positions of the report's badges that belong to a ladder
BadgesOf(ladder) ==
  {p \in 1..Len(report.achievements) :
     \E i \in 1..Len(ladder) : ladder[i].id = report.achievements[p]}

\* the badge of the highest threshold that the count reaches, if any
Deserved(ladder, count) ==
  {ladder[i].id : i \in {j \in 1..Len(ladder) :
                           count >= ladder[j].at /\ \A h \in 1..(j - 1) : count < ladder[h].at}}

\* C7: each ladder awards at most one badge, the one of the highest threshold
\* that its count reaches, and none below the lowest threshold.
C7_HighestTierOnly ==
  report # Null =>
    \A l \in DOMAIN Ladders :
      /\ Cardinality(BadgesOf(Ladders[l])) <= 1
      /\ {report.achievements[p] : p \in BadgesOf(Ladders[l])}
           = Deserved(Ladders[l], LadderCounts[l])

\* C8: with at least one event, the streak has days >= 1 equal to the longest run
\* of consecutive active dates, and startDate..endDate are active dates bounding
\* a run of exactly that many days.
C8_LongestStreak ==
  (report # Null /\ ActiveDays # {}) =>
    LET streak == report.timeStats.longestStreak
        first == DaysFromCivil(streak.startDate.y, streak.startDate.m, streak.startDate.d)
        last == DaysFromCivil(streak.endDate.y, streak.endDate.m, streak.endDate.d)
    IN  /\ streak.days >= 1
        /\ streak.days = LongestRun(ActiveDays)
        /\ first \in ActiveDays
        /\ last = first + streak.days - 1
        /\ IsRun(ActiveDays, first, streak.days)

\* activity on 2025-03-01..05 and on 2025-03-10: 5 days, from 03-01 to 03-05
C8_Witness ==
  /\ report # Null
  /\ data = StreakExample
  /\ tz = 0
  /\ report.timeStats.longestStreak =
       [days |-> 5, startDate |-> [y |-> 2025, m |-> 3, d |-> 1],
        endDate |-> [y |-> 2025, m |-> 3, d |-> 5]]

\* how many items of a sequence of projects have the display name
CountNamed(projects, name) ==
  Cardinality({i \in 1..Len(projects) : ProjectName(projects[i]) = name})

\* C9: every project display name of the dataset has exactly one group, whose
\* counters are the numbers of created issues, resolved issues and comments of
\* that name and whose totalActivity is their sum; no other group exists.
C9_OneGroupPerName ==
  report # Null =>
    LET groups == report.projectStats.projects
    IN  /\ \A g \in 1..Len(groups) : groups[g].name \in DisplayNames
        /\ \A name \in DisplayNames :
             /\ Cardinality({g \in 1..Len(groups) : groups[g].name = name}) = 1
             /\ \A g \in 1..Len(groups) :
                  groups[g].name = name =>
                    /\ groups[g].issuesCreated = CountNamed(ProjectsOf(data.createdIssues), name)
                    /\ groups[g].issuesResolved = CountNamed(ProjectsOf(data.resolvedIssues), name)
                    /\ groups[g].comments = CountNamed(ProjectsOfComments(data.comments), name)
                    /\ groups[g].totalActivity =
                         groups[g].issuesCreated + groups[g].issuesResolved + groups[g].comments

\* C10: the four summary counts are the lengths of the four collections and
\* totalContributions is their sum.
C10_SummaryTotals ==
  report # Null =>
    /\ report.summary.totalIssuesCreated = Len(data.createdIssues)
    /\ report.summary.totalIssuesResolved = Len(data.resolvedIssues)
    /\ report.summary.totalComments = Len(data.comments)
    /\ report.summary.totalArticles = Len(data.articles)
    /\ report.summary.totalContributions =
         Len(data.createdIssues) + Len(data.resolvedIssues) + Len(data.comments)
           + Len(data.articles)

\* two created issues, the first of them also resolved, a comment and an article:
\* the issue that is in both collections counts twice
C10_Witness ==
  /\ report # Null
  /\ Len(data.createdIssues) = 2 /\ Len(data.resolvedIssues) = 1
  /\ Len(data.comments) = 1 /\ Len(data.articles) = 1
  /\ data.resolvedIssues[1] = data.createdIssues[1]
  /\ report.summary.totalContributions = 5

\* the created issues that have a resolution instant, and the minutes each took
Qualifying == {i \in 1..Len(data.createdIssues) : data.createdIssues[i].resolved # Null}

Minutes(t) == t.day * 1440 + t.ms \div 60000

RECURSIVE TotalMinutes(_)
TotalMinutes(Q) ==
  IF Q = {} THEN 0
  ELSE LET i == CHOOSE x \in Q : TRUE
       IN  Minutes(data.createdIssues[i].resolved) - Minutes(data.createdIssues[i].created)
             + TotalMinutes(Q \ {i})

\* C11: the average resolution time is the mean of resolved - created over the
\* created issues that have a resolution instant (resolvedIssues play no part),
\* avgResolutionTimeDays is that mean in days, rounded; with no such issue both
\* are exactly 0.
C11_AvgResolutionTime ==
  report # Null =>
    LET avg == report.issueStats.avgResolutionTimeMs
        n == Cardinality(Qualifying)
    IN  IF n = 0
          THEN /\ avg = [sum |-> [day |-> 0, ms |-> 0], count |-> 1]
               /\ report.issueStats.avgResolutionTimeDays = 0
          ELSE /\ avg.count = n
               /\ avg.sum.ms % 60000 = 0
               /\ Minutes(avg.sum) = TotalMinutes(Qualifying)
               /\ report.issueStats.avgResolutionTimeDays
                    = RoundDiv(TotalMinutes(Qualifying), n * 1440)

\* three created issues, one unresolved, the others resolved after 6 and 36
\* hours, next to a resolved issue that took 90 days: the mean is 21 hours
C11_Witness ==
  /\ report # Null
  /\ Len(data.createdIssues) = 3
  /\ Cardinality(Qualifying) = 2
  /\ Len(data.resolvedIssues) = 1
  /\ report.issueStats.avgResolutionTimeMs = [sum |-> [day |-> 1, ms |-> 64800000], count |-> 2]
  /\ report.issueStats.avgResolutionTimeDays = 1

\* what the tracker holds for the projects of the list from position i on, leaving
\* out the projects for which a request failed
RECURSIVE ServerArticlesFrom(_)
ServerArticlesFrom(i) ==
  IF i > Len(articleProjects) THEN <<>>
  ELSE (IF articleProjects[i] \in FailedProjects THEN <<>>
        ELSE [k \in 1..server.articles[articleProjects[i]] |->
                ServerArticle(articleProjects[i], k, year)])
       \o ServerArticlesFrom(i + 1)

\* the dataset that the tracker's answers determine
ExpectedDataset ==
  [user |-> server.user, year |-> year,
   createdIssues |-> AllServerIssues("created"),
   resolvedIssues |-> AllServerIssues("resolved"),
   comments |-> extractUserComments(AllServerIssues("comments"), server.user.login, year),
   articles |-> filterArticlesByUserAndYear(ServerArticlesFrom(1), server.user.login, year)]

\* C12: onProgress is advisory: collectYearData fails only with the error of a
\* failed request, never with an error thrown by onProgress, and the dataset it
\* returns is the one the tracker's answers determine, whatever onProgress does.
C12_ProgressAdvisory ==
  /\ pc = "failed" => outcome.value.cause \in Failures
  /\ pc = "done" => outcome = Returned(ExpectedDataset)

\* C13: the failure shown to the user is determined by its cause alone: the
\* authentication failure exactly for a 401 or 403 response, the connectivity
\* failure exactly when fetch rejected, and for every other failed response the
\* error that carries the status code and the raw body; the body plays no part.
C13_ClassifiedByCause ==
  (load # Null /\ load.pc = "shown") =>
    /\ load.shown = "authentication" <=> (load.fetch.kind = "http" /\ load.fetch.status \in {401, 403})
    /\ load.shown = "connectivity" <=> load.fetch.kind = "network"
    /\ load.shown = "passthrough" =>
         /\ Includes(load.message, Digits(load.fetch.status))
         /\ Includes(load.message, load.fetch.text)

\* some request of the fan-out has been issued
AnyFanOutRequest ==
  \/ \E c \in IssueCalls : calls[c].requests # <<>>
  \/ art.requests # <<>>

\* a failed current-user request fails collectYearData with its error, and no
\* issue or article request is ever issued
UserFailureIsFinal ==
  userCall.status = "rejected" =>
    /\ pc = "failed"
    /\ outcome = Threw(userCall.error)
    /\ ~AnyFanOutRequest

\* C14 as stated: the current-user request has completed before any request of
\* the four fan-out fetches is issued, every such request, of an issue fetch or
\* of getArticles, names the login it returned, and its failure is final.
C14_LoginInEveryRequest ==
  /\ AnyFanOutRequest => (userCall.status = "fulfilled" /\ currentUser = server.user)
  /\ \A c \in IssueCalls :
       calls[c].requests # <<>> => currentUser.login \in LoginsInIssueRequest(calls[c])
  /\ art.requests # <<>> => currentUser.login \in LoginsInArticleRequest(art)
  /\ UserFailureIsFinal

\* C14, amended: the current-user request has completed before any request of
\* the four fan-out fetches is issued, every request of the three issue fetches
\* names the login it returned (the article requests name a project and no
\* login), and its failure is final.
C14_UserFirst ==
  /\ AnyFanOutRequest => (userCall.status = "fulfilled" /\ currentUser = server.user)
  /\ \A c \in IssueCalls :
       calls[c].requests # <<>> => LoginsInIssueRequest(calls[c]) = {currentUser.login}
  /\ UserFailureIsFinal

\* the four fetches have each issued a request, the issue fetches for alice
C14_Witness ==
  /\ pc = "fanout"
  /\ userCall.status = "fulfilled"
  /\ currentUser.login = "alice"
  /\ \A c \in IssueCalls : calls[c].requests # <<>> /\ calls[c].userId = "alice"
  /\ art.requests # <<>>

\* C15: when the current-user request and the three issue fetches have succeeded
\* and getArticles is through its list, collectYearData returns a dataset, for
\* every pattern of failed article requests, and the dataset's articles are those
\* of the projects without a failed request.
C15_ArticleFailuresTolerated ==
  ( /\ userCall.status = "fulfilled"
    /\ \A c \in IssueCalls : calls[c].status = "fulfilled"
    /\ art.status = "fulfilled" )
  => /\ pc = "done"
     /\ outcome.kind = "returned"
     /\ outcome.value.articles
          = filterArticlesByUserAndYear(ServerArticlesFrom(1), currentUser.login, year)

\* C16: calculateAll leaves this.data as it was: the same four collections, in
\* the same order, with the same items.
C16_DatasetUnchanged == [][data' = data]_vars

\* two created issues in ascending order of summary length: the report's longest
\* summary is the second one, and the dataset still has it in second place
C16_Witness ==
  /\ report # Null
  /\ Len(data.createdIssues) = 2
  /\ data.createdIssues[1].summary < data.createdIssues[2].summary
  /\ report.issueStats.longestSummary = data.createdIssues[2]
  /\ Len(data.comments) = 1
  /\ Len(data.articles) = 1

\* the projects in the order calculateProjectStats meets them
Encountered ==
  ProjectsOf(data.createdIssues) \o ProjectsOf(data.resolvedIssues)
    \o ProjectsOfComments(data.comments)

\* the place at which a display name is met first
FirstSeen(name) ==
  CHOOSE i \in 1..Len(Encountered) :
    /\ ProjectName(Encountered[i]) = name
    /\ \A j \in 1..(i - 1) : ProjectName(Encountered[j]) # name

\* C17: the groups are in descending order of totalActivity, groups of equal
\* totalActivity in the order in which their names were first met, and
\* topProject is the first group, or null when there is none.
C17_SortedByActivity ==
  report # Null =>
    LET groups == report.projectStats.projects
    IN  /\ \A g, h \in 1..Len(groups) :
             g < h =>
               \/ groups[g].totalActivity > groups[h].totalActivity
               \/ /\ groups[g].totalActivity = groups[h].totalActivity
                  /\ FirstSeen(groups[g].name) < FirstSeen(groups[h].name)
        /\ report.projectStats.topProject = IF Len(groups) = 0 THEN Null ELSE groups[1]

\* the sum of the buckets of a histogram
RECURSIVE BucketTotal(_, _)
BucketTotal(h, keys) ==
  IF keys = {} THEN 0
  ELSE LET k == CHOOSE x \in keys : TRUE IN h[k] + BucketTotal(h, keys \ {k})

EventCount == Len(data.createdIssues) + Len(data.comments) + Len(data.articles)

\* C18: monthlyActivity has exactly the keys 1..12, dayOfWeekActivity 0..6 and
\* hourlyActivity 0..23, every bucket holds a count >= 0, and the buckets of each
\* histogram sum to the number of created issues, comments and articles;
\* resolved issues add nothing.
C18_Histograms ==
  report # Null =>
    LET t == report.timeStats
    IN  /\ DOMAIN t.monthlyActivity = 1..12
        /\ DOMAIN t.dayOfWeekActivity = 0..6
        /\ DOMAIN t.hourlyActivity = 0..23
        /\ \A k \in 1..12 : t.monthlyActivity[k] \in Nat
        /\ \A k \in 0..6 : t.dayOfWeekActivity[k] \in Nat
        /\ \A k \in 0..23 : t.hourlyActivity[k] \in Nat
        /\ BucketTotal(t.monthlyActivity, 1..12) = EventCount
        /\ BucketTotal(t.dayOfWeekActivity, 0..6) = EventCount
        /\ BucketTotal(t.hourlyActivity, 0..23) = EventCount

\* two created issues, one resolved issue, a comment and an article: 4 events
C18_Witness ==
  /\ report # Null
  /\ Len(data.createdIssues) = 2 /\ Len(data.resolvedIssues) = 1
  /\ Len(data.comments) = 1 /\ Len(data.articles) = 1
  /\ BucketTotal(report.timeStats.monthlyActivity, 1..12) = 4
  /\ report.timeStats.monthlyActivity[3] = 4
  /\ report.timeStats.monthlyActivity[1] = 0

\* bucket key with count n is the busiest of histogram h: no bucket has more, and
\* every bucket with a lower key has less
IsBusiest(h, key, n) ==
  /\ key \in DOMAIN h
  /\ h[key] = n
  /\ \A k \in DOMAIN h : h[k] <= n
  /\ \A k \in DOMAIN h : k < key => h[k] < n

\* C19: on each axis the busiest bucket has the maximum count, is the one with
\* the lowest key among those that have it, and is reported with its count.
C19_BusiestLowestKey ==
  report # Null =>
    LET t == report.timeStats
    IN  /\ IsBusiest(t.monthlyActivity, t.busiestMonth.month, t.busiestMonth.count)
        /\ IsBusiest(t.dayOfWeekActivity, t.busiestDayOfWeek.day, t.busiestDayOfWeek.count)
        /\ IsBusiest(t.hourlyActivity, t.busiestHour.hour, t.busiestHour.count)

\* one event in hour 12 and one in hour 23: hour 12 is reported
C19_Witness ==
  /\ report # Null
  /\ report.timeStats.hourlyActivity[12] = 1
  /\ report.timeStats.hourlyActivity[23] = 1
  /\ \A k \in 0..23 : report.timeStats.hourlyActivity[k] <= 1
  /\ report.timeStats.busiestHour = [hour |-> 12, count |-> 1]

\* the place of a fact kind in the fixed order
FactRank(icon) ==
  CASE icon = "pages" -> 1
    [] icon = "calendar" -> 2
    [] icon = "clock" -> 3
    [] icon = "fire" -> 4
    [] icon = "chart" -> 5

HasFact(icon) == \E i \in 1..Len(report.funFacts) : report.funFacts[i].icon = icon

RECURSIVE CommentCharacters(_)
CommentCharacters(i) ==
  IF i = 0 THEN 0
  ELSE LengthOr0(data.comments[i], "text") + CommentCharacters(i - 1)

\* C20: funFacts holds at most 5 facts, each kind at most once and in the order
\* pages, weekday, personality, streak, issues per month; the streak fact is
\* there exactly when longestStreak.days > 1, the issues-per-month fact exactly
\* when there are 12 created issues or more, and the pages fact exactly when
\* round(total comment characters / 3000) > 0.
C20_FunFactsOrder ==
  report # Null =>
    LET facts == report.funFacts
    IN  /\ Len(facts) <= 5
        /\ \A i \in 1..Len(facts) :
             facts[i].icon \in {"pages", "calendar", "clock", "fire", "chart"}
        /\ \A i, j \in 1..Len(facts) :
             i < j => FactRank(facts[i].icon) < FactRank(facts[j].icon)
        /\ HasFact("fire") <=> report.timeStats.longestStreak.days > 1
        /\ HasFact("chart") <=> Len(data.createdIssues) >= 12
        /\ HasFact("pages") <=> RoundDiv(CommentCharacters(Len(data.comments)), 3000) > 0

\* 12 created issues on two consecutive days and 1520 characters of comments:
\* all five facts, in order
C20_Witness ==
  /\ report # Null
  /\ Len(data.createdIssues) = 12
  /\ Len(data.comments) = 38
  /\ [i \in 1..Len(report.funFacts) |-> report.funFacts[i].icon]
       = <<"pages", "calendar", "clock", "fire", "chart">>

\* C21: commentStats.mostCommentedIssue is null exactly when there are no
\* comments; otherwise it is the group of one parent issue (keyed by the issue's
\* idReadable, holding that issue), its count is the number of the comments on
\* that issue, no issue has more comments, and of the issues with as many
\* comments it is the one whose first comment comes earliest in the sequence.
CommentsOn(id) ==
  {i \in 1..Len(data.comments) : data.comments[i].issue.idReadable = id}

FirstCommentOn(id) ==
  CHOOSE i \in CommentsOn(id) : \A j \in CommentsOn(id) : i <= j

C21_MostCommentedIssue ==
  report # Null =>
    LET most == report.commentStats.mostCommentedIssue
        ids == {data.comments[i].issue.idReadable : i \in 1..Len(data.comments)}
    IN  /\ most = Null <=> Len(data.comments) = 0
        /\ most # Null =>
              /\ most.issue.idReadable \in ids
              /\ most.issue = data.comments[FirstCommentOn(most.issue.idReadable)].issue
              /\ most.count = Cardinality(CommentsOn(most.issue.idReadable))
              /\ \A id \in ids :
                    /\ Cardinality(CommentsOn(id)) <= most.count
                    /\ Cardinality(CommentsOn(id)) = most.count
                         => FirstCommentOn(most.issue.idReadable) <= FirstCommentOn(id)

\* three comments, on BE-7, AL-1 and AL-2 in this order: a three-way tie that the
\* issue commented first wins, though its key is the last in key order
C21_Witness ==
  /\ report # Null
  /\ [i \in 1..Len(data.comments) |-> data.comments[i].issue.idReadable]
       = <<"BE-7", "AL-1", "AL-2">>
  /\ report.commentStats.mostCommentedIssue.issue.idReadable = "BE-7"
  /\ report.commentStats.mostCommentedIssue.count = 1

\* a request of the run is outstanding
InFlight ==
  \/ userCall.status = "inflight"
  \/ \E c \in IssueCalls : calls[c].status = "inflight"
  \/ art.status = "inflight"

\* how often getArticles has requested offset skip of project p, and how often
\* the projects it has reached so far name p
TimesRequested(p, skip) ==
  Cardinality({i \in 1..Len(art.requests) : art.requests[i] = <<p, skip>>})

TimesNamed(p) ==
  Cardinality({i \in 1..art.idx : articleProjects[i] = p})

\* C22 (as stated): no request (same path and offset) is issued twice within one
\* collectYearData run, and the run has not completed, with a dataset or with an
\* error, while a request that it issued is outstanding (so that a request that
\* never completes keeps it from ever completing).
C22_StalledRequestStallsRun ==
  /\ \A c \in IssueCalls : \A i, j \in 1..Len(calls[c].requests) :
        i < j => calls[c].requests[i] # calls[c].requests[j]
  /\ \A i, j \in 1..Len(art.requests) : i < j => art.requests[i] # art.requests[j]
  /\ pc \in {"done", "failed"} => ~InFlight

\* C22 (amended): no fetch repeats a request: an issue fetch requests the offsets
\* 0, top, 2 * top, ... once each, and getArticles requests an offset of a
\* project at most as often as articleProjects names the project; the run has
\* not returned a dataset while a request is outstanding; and it has failed
\* while a request is outstanding only with the error of an issue fetch that
\* has rejected.
C22_NoRetryStallBlocksDataset ==
  /\ \A c \in IssueCalls : \A i \in 1..Len(calls[c].requests) :
        calls[c].requests[i] = (i - 1) * top
  /\ \A i \in 1..Len(art.requests) :
        TimesRequested(art.requests[i][1], art.requests[i][2])
          <= TimesNamed(art.requests[i][1])
  /\ pc = "done" => ~InFlight
  /\ pc = "failed" /\ InFlight =>
        /\ all.status = "rejected"
        /\ outcome = Threw(all.error)
        /\ \E c \in IssueCalls : calls[c].status = "rejected" /\ calls[c].error = all.error

\* the run has failed with the error of the resolved-issues fetch while the
\* first request for created issues and the second request for the articles of
\* A, named twice, are outstanding
C22_Witness ==
  /\ pc = "failed"
  /\ outcome = Threw(calls["resolved"].error)
  /\ calls["created"].status = "inflight"
  /\ calls["created"].requests = <<0>>
  /\ art.status = "inflight"
  /\ art.requests = << <<"A", 0>>, <<"A", 0>> >>

\* the pages that hold n items (an empty response counts as no page)
PagesOf(n) == (n + top - 1) \div top

\* the projects whose pages getArticles has received in full
ProjectsDone == IF art.status = "inflight" THEN art.idx - 1 ELSE art.idx

\* C23: with a progress callback that returns, every paginated fetch has invoked
\* it once per page received so far (the state after a response is the state
\* in which the next page is requested), each time with the number of items
\* concatenated so far, so that the totals of one fetch never decrease: the
\* three issue fetches, and getArticles for the pages of each project, as long
\* as none of its requests has failed.
C23_ProgressAfterEachPage ==
  onProgress = "returns" =>
    /\ \A c \in IssueCalls :
          calls[c].progress = [i \in 1..PagesOf(Len(calls[c].allIssues)) |->
                                 Min(i * top, Len(calls[c].allIssues))]
    /\ art.warned = <<>> /\ art.status # "idle" =>
          /\ Len(art.progress)
                = Sum([i \in 1..ProjectsDone |->
                         PagesOf(server.articles[articleProjects[i]])])
                  + (IF art.status = "inflight" THEN PagesOf(Len(art.projectArticles)) ELSE 0)
          /\ \A i, j \in 1..Len(art.progress) : i < j => art.progress[i] <= art.progress[j]
          /\ Len(art.progress) > 0 =>
                art.progress[Len(art.progress)]
                  = Len(art.allArticles)
                    + (IF art.status = "inflight" THEN Len(art.projectArticles) ELSE 0)

\* C24: in getArticles a project contributes all of its pages or nothing.  The
\* collection is empty when getArticles starts and changes only in the step
\* that ends a project without a failed request, which appends the project's
\* complete article list; the step in which a request fails, for the first or
\* for a later page, leaves the collection as it was, so the pages received
\* before are not in it.  Hence the returned collection is the concatenation, in
\* input order, of the complete lists of the projects without a failed request.
C24_AllPagesOrNothing ==
  [][/\ art.status = "idle" => art'.allArticles = <<>>
     /\ art.status = "inflight" =>
          LET p == articleProjects[art.idx]
              failed == /\ Len(art'.warned) > Len(art.warned)
                        /\ art'.warned[Len(art'.warned)][2] \in Failures
              left == art'.status = "fulfilled" \/ art'.idx # art.idx
          IN  art'.allArticles =
                IF left /\ ~failed
                  THEN art.allArticles
                         \o [k \in 1..server.articles[p] |-> ServerArticle(p, k, year)]
                  ELSE art.allArticles]_vars

\* the request for the second page of B has failed after a full first page: the
\* returned collection holds the articles of A and of C and none of B
C24_Witness ==
  /\ art.status = "fulfilled"
  /\ articleProjects = <<"A", "B", "C">>
  /\ art.requests = << <<"A", 0>>, <<"B", 0>>, <<"B", top>>, <<"C", 0>> >>
  /\ FailedProjects = {"B"}
  /\ server.articles["A"] > 0
  /\ art.allArticles
       = [k \in 1..server.articles["A"] |-> ServerArticle("A", k, year)]
         \o [k \in 1..server.articles["C"] |-> ServerArticle("C", k, year)]

\* C25: over every sequence of submissions and page loads, the persisted
\* settings change only in the step in which the data load of a submission
\* succeeds: a submission that fails validation, a data load that fails, an
\* edit of the form and a page load leave the item as it was and make no call
\* that writes; a successful submission with 'remember' unchecked removes the
\* item; and the item takes a new value only from a successful submission with
\* 'remember' checked, whose settings (a non-empty token among them) it then
\* holds.  So the item holds a token only if the most recent successful
\* submission had 'remember' checked.
C25_SettingsFollowLastSuccess ==
  [][LET succeeded == session.screen = "loading" /\ session'.data # Null
     IN  /\ ~succeeded => storage' = storage
         /\ succeeded => storage'.writes = storage.writes + 1
         /\ succeeded /\ ~session.remember => storage'.item = Null
         /\ storage'.item # storage.item /\ storage'.item # Null =>
               /\ succeeded
               /\ session.remember
               /\ JSONParse(storage'.item) = session.config
               /\ Len(session.config.token) > 0]_vars

\* settings remembered by an earlier submission are still there, after the one
\* call that wrote them, when a later submission with another token and
\* 'remember' unchecked has failed to load its data
C25_Witness ==
  /\ session # Null
  /\ session.screen = "error"
  /\ session.data = Null
  /\ ~session.remember
  /\ storage.item # Null
  /\ storage.writes = 1
  /\ JSONParse(storage.item).token = <<"t", "1">>
  /\ session.config.token = <<"t", "2">>

\* C26: whenever the issues-per-month fact is among the fun facts, the number N
\* of its 'one every N days' text is at least 1 and its monthly rate is
\* round(createdIssues.length / 12), however many issues were created.
C26_OneEveryNDays ==
  report # Null =>
    \A i \in 1..Len(report.funFacts) :
      report.funFacts[i].icon = "chart" =>
        /\ report.funFacts[i].everyDays >= 1
        /\ report.funFacts[i].perMonth = RoundDiv(Len(data.createdIssues), 12)

====
